---- MODULE Spec2Model ----
(***************************************************************************)
(* Model of modemo.py: serial port enumeration, the bounded connection     *)
(* probe (test_port_for_modem and its worker thread), the two-phase        *)
(* auto-detection (auto_detect_modem), the session set-up (connect_modem)  *)
(* and the top-level run() with the ModemManager lease.                    *)
(***************************************************************************)
EXTENDS Integers, Sequences, FiniteSets, TLC

(***************************************************************************)
(* Bounds of the model.                                                    *)
(***************************************************************************)
\* the number of serial devices the host can have
MaxPorts == 2
\* at most this many abandoned workers are followed; a worker abandoned
\* beyond that takes no further step (it stays blocked in its call)
MaxAbandoned == 1
\* at most this many "Change Connection/Port" choices in the main menu
MaxReconnects == 1

(***************************************************************************)
(* Program constants.                                                      *)
(***************************************************************************)
primary_baudrate == 115200
fallback_baudrates == <<9600, 460800, 57600, 19200>>

\* priority values of detect_serial_ports
PrioACM == 10
PrioAMA == 20
PrioS == 30

None == "None"

(***************************************************************************)
(* Device paths.  A path is a device class and a number; its text is not   *)
(* needed, only the order of the path strings, which Python compares       *)
(* character by character.                                                 *)
(***************************************************************************)
Dev(c, n) == [cls |-> c, num |-> n]

LinuxPaths == {Dev("ttyUSB", n) : n \in 1..MaxPorts}
WindowsPaths == {Dev("COM", n) : n \in 1..MaxPorts}

\* what the glob patterns of detect_serial_ports and comports() can find: the
\* four Linux device classes and COM ports, with one- and two-digit numbers
PortNums == (0..MaxPorts) \cup {10}
GlobPaths == {Dev(c, n) : c \in {"ttyUSB", "ttyACM", "ttyAMA", "ttyS"}, n \in PortNums}
ComPorts == {Dev("COM", n) : n \in PortNums \ {0}}

\* order of the class names as strings: "COM" < "ttyACM" < "ttyAMA" < "ttyS" < "ttyUSB"
ClassRank(c) ==
    CASE c = "COM" -> 0
      [] c = "ttyACM" -> 1
      [] c = "ttyAMA" -> 2
      [] c = "ttyS" -> 3
      [] c = "ttyUSB" -> 4

\* the decimal digits of a number, most significant first
RECURSIVE Digits(_)
Digits(n) == IF n < 10 THEN <<n>> ELSE Append(Digits(n \div 10), n % 10)

\* s < t for digit strings, compared as Python compares strings
RECURSIVE LexLess(_, _)
LexLess(s, t) ==
    IF s = <<>> THEN t # <<>>
    ELSE IF t = <<>> THEN FALSE
    ELSE IF Head(s) # Head(t) THEN Head(s) < Head(t)
    ELSE LexLess(Tail(s), Tail(t))

PathLess(p, q) ==
    IF p.cls # q.cls THEN ClassRank(p.cls) < ClassRank(q.cls)
    ELSE LexLess(Digits(p.num), Digits(q.num))

(***************************************************************************)
(* detect_serial_ports                                                     *)
(***************************************************************************)
\* the port_info of a Windows COM port
WindowsPortInfo(p) ==
    [path |-> p, type |-> "COM Port", priority |-> 0 - p.num]

\* the port_info of a Linux device; udevOk is false when the udevadm call
\* raised, which skips the type and priority assignment in the same try block
LinuxPortInfo(p, udevOk) ==
    IF ~udevOk THEN [path |-> p, type |-> "Unknown", priority |-> 0]
    ELSE IF p.cls = "ttyUSB" THEN [path |-> p, type |-> "USB Serial", priority |-> 0 - p.num]
    ELSE IF p.cls = "ttyACM" THEN [path |-> p, type |-> "USB CDC-ACM", priority |-> PrioACM]
    ELSE IF p.cls = "ttyAMA" THEN [path |-> p, type |-> "UART (Hardware)", priority |-> PrioAMA]
    ELSE IF p.cls = "ttyS" THEN [path |-> p, type |-> "Serial Port", priority |-> PrioS]
    ELSE [path |-> p, type |-> "Unknown", priority |-> 0]

\* the sort key (priority, path) of sorted()
PortKeyLess(a, b) ==
    \/ a.priority < b.priority
    \/ a.priority = b.priority /\ PathLess(a.path, b.path)

RECURSIVE SetToSeq(_)
SetToSeq(S) ==
    IF S = {} THEN <<>>
    ELSE LET x == CHOOSE y \in S : TRUE IN <<x>> \o SetToSeq(S \ {x})

\* the list detect_serial_ports returns for the devices present
detect_serial_ports(linux, present, udevFail) ==
    LET infos == IF linux
                 THEN {LinuxPortInfo(p, p \notin udevFail) : p \in present}
                 ELSE {WindowsPortInfo(p) : p \in present}
    IN SortSeq(SetToSeq(infos), PortKeyLess)

(***************************************************************************)
(* ModemConnection: connect, send_at_command, disconnect.                  *)
(* A connection is the object's fields plus the position inside connect(): *)
(* cpc is "open" before the serial.Serial call of setting si, "hs" before  *)
(* handshake attempt number attempt, "true"/"false" once connect returned. *)
(***************************************************************************)
\* what a response text contains; a response is the set of the tokens in it
Tokens == {"OK", "AT", "ERROR"}
Responses == SUBSET Tokens

\* the flow-control settings tried, as the texts of the Python values
rtscts_settings(quick_test) == IF quick_test THEN <<"False">> ELSE <<"False", "True">>
max_attempts(quick_test) == IF quick_test THEN 1 ELSE 3

\* the baud rate is not kept: it is passed on to serial.Serial and decides
\* only what the device answers, which every step below leaves open
ModemConnection(port) ==
    [port |-> port, isopen |-> FALSE, rtscts |-> None,
     quick |-> FALSE, cpc |-> "idle", si |-> 1, attempt |-> 0]

\* entry of connect(quick_test)
ConnectBegin(c, quick_test) ==
    [c EXCEPT !.quick = quick_test, !.cpc = "open", !.si = 1, !.attempt = 0]

\* connect() has returned: its locals are gone
ConnectEnd(c) == [c EXCEPT !.quick = FALSE, !.cpc = "idle", !.si = 1, !.attempt = 0]

\* mutant: the handle of a failed setting is left open
NextSetting_NoClose(c) ==
    IF c.si < Len(rtscts_settings(c.quick))
    THEN [c EXCEPT !.si = c.si + 1, !.cpc = "open", !.attempt = 0]
    ELSE [c EXCEPT !.cpc = "false"]
\* the connection is closed and the loop over the settings goes on
NextSetting(c) ==
    IF c.si < Len(rtscts_settings(c.quick))
    THEN [c EXCEPT !.isopen = FALSE, !.si = c.si + 1, !.cpc = "open", !.attempt = 0]
    ELSE [c EXCEPT !.isopen = FALSE, !.cpc = "false"]

\* serial.Serial(...) and the buffer resets: ev = "ok", or "raise" when the
\* open or a reset raised (the handler closes the handle and continues)
OpenEvents == {"ok", "raise"}
ConnectOpen(c, ev) ==
    IF ev = "ok"
    THEN [c EXCEPT !.isopen = TRUE, !.cpc = "hs", !.attempt = 0]
    ELSE NextSetting(c)

\* the handshake accepts a response containing "OK" or "AT"
Answered(r) == "OK" \in r \/ "AT" \in r

\* one handshake attempt: write AT, read the response r; fault is true when
\* the write, flush or read raised BrokenPipeError/OSError, lateFault when the
\* buffer reset after an accepted response raised it
HandshakeEvents ==
    {ev \in [r : Responses, fault : BOOLEAN, lateFault : BOOLEAN] :
        /\ ev.fault => (ev.r = {} /\ ~ev.lateFault)
        /\ ev.lateFault => ev.r = {"OK"}}
OnFault_NoRetry(c) == NextSetting(c)
OnFault(c) ==
    IF c.attempt < max_attempts(c.quick) - 1 /\ ~c.quick
    THEN [c EXCEPT !.attempt = c.attempt + 1]
    ELSE NextSetting(c)
ConnectHandshake(c, ev) ==
    IF ev.fault THEN OnFault(c)
    ELSE IF Answered(ev.r)
    THEN LET d == [c EXCEPT !.rtscts = rtscts_settings(c.quick)[c.si]]
         IN IF ev.lateFault THEN OnFault(d) ELSE [d EXCEPT !.cpc = "true"]
    ELSE IF c.attempt + 1 < max_attempts(c.quick)
    THEN [c EXCEPT !.attempt = c.attempt + 1]
    ELSE NextSetting(c)

disconnect(c) == [c EXCEPT !.isopen = FALSE]

\* what str(e) gives for the exceptions a serial handle raises
FaultTexts == {"Broken pipe", "Input/output error"}

\* send_at_command: the ATResponse for the drained response r, or for a fault
\* with its text; io tells whether the handle was used
SendEvents ==
    {ev \in [r : Responses, fault : BOOLEAN, text : FaultTexts \cup {""}] :
        /\ ev.fault => (ev.r = {} /\ ev.text # "")
        /\ ~ev.fault => ev.text = ""}
ATResponse(success, error, io) == [success |-> success, error |-> error, io |-> io]

\* mutant: the handle is not looked at
NoConnection_Never(c) == FALSE
\* not self.connection or not self.connection.is_open
NoConnection(c) == ~c.isopen

\* mutant: ERROR in the response is not looked at
ParseSuccess_OKOnly(response) == "OK" \in response
\* success = "OK" in response and "ERROR" not in response
ParseSuccess(response) == "OK" \in response /\ "ERROR" \notin response

\* mutant: the text of the exception is dropped
OnException_NoText(text) == ATResponse(FALSE, None, TRUE)
\* except Exception as e: the response carries str(e)
OnException(text) == ATResponse(FALSE, text, TRUE)

send_at_command(c, ev) ==
    IF NoConnection(c) THEN ATResponse(FALSE, "No connection", FALSE)
    ELSE IF ev.fault THEN OnException(ev.text)
    ELSE ATResponse(ParseSuccess(ev.r),
                    IF "ERROR" \in ev.r THEN "ERROR" ELSE None, TRUE)

(***************************************************************************)
(* Responses and their decoding (_parse_response and the _parse_* methods).*)
(* A response is the sequence of its stripped, non-empty lines.  A line is *)
(* its tag (the text up to the colon, "" for a line without one), the      *)
(* comma-separated fields after it, and for a line without fields its text *)
(* as characters.  A field is known by its lexical class, which is what    *)
(* the regular expressions test: an unquoted number (num), a quoted string *)
(* of upper-case hexadecimal digits (hex), any other quoted string (str,   *)
(* possibly empty), an unquoted text that is no number (word).             *)
(***************************************************************************)
Num(n) == [k |-> "num", n |-> n, s |-> ""]
Hex(s) == [k |-> "hex", n |-> 0, s |-> s]
Quoted(s) == [k |-> "str", n |-> 0, s |-> s]
Word(s) == [k |-> "word", n |-> 0, s |-> s]

Line(tag, fields) == [tag |-> tag, fields |-> fields, text |-> <<>>]
TextLine(text) == [tag |-> "", fields |-> <<>>, text |-> text]

\* the lines OK and ERROR, and the echo: a line equal to the command sent
OKLine == Line("OK", <<>>)
ERRORLine == Line("ERROR", <<>>)
EchoLine == Line("echo", <<>>)

\* a field of the class at position i
IsNum(f, i) == i <= Len(f) /\ f[i].k = "num"
IsHex(f, i) == i <= Len(f) /\ f[i].k = "hex"
IsQuoted(f, i) == i <= Len(f) /\ f[i].k \in {"hex", "str"}

\* the empty dict, and dict.update: the entries of new replace those of old
EmptyDict == [key \in {} |-> 0]
Update(old, new) == new @@ old

\* the status labels of _parse_registration
RegStatusText(stat) ==
    CASE stat = 0 -> "Not registered, not searching"
      [] stat = 1 -> "Registered, home network"
      [] stat = 2 -> "Not registered, searching"
      [] stat = 3 -> "Registration denied"
      [] stat = 4 -> "Unknown"
      [] stat = 5 -> "Registered, roaming"
      [] OTHER -> "Unknown (" \o ToString(stat) \o ")"

\* the access technology labels of _parse_registration
RegActText(act) ==
    CASE act = 0 -> "GSM"
      [] act = 1 -> "GSM Compact"
      [] act = 2 -> "UTRAN"
      [] act = 3 -> "GSM w/EGPRS"
      [] act = 4 -> "UTRAN w/HSDPA"
      [] act = 5 -> "UTRAN w/HSUPA"
      [] act = 6 -> "UTRAN w/HSDPA and HSUPA"
      [] act = 7 -> "E-UTRAN"
      [] act = 8 -> "EC-GSM-IoT"
      [] act = 9 -> "E-UTRAN (NB-S1 mode)"
      [] OTHER -> "Unknown (" \o ToString(act) \o ")"

\* match.group(1).lower() of the registration pattern
RegType(tag) ==
    CASE tag = "+CREG:" -> "creg"
      [] tag = "+CGREG:" -> "cgreg"
      [] tag = "+CEREG:" -> "cereg"

\* stat = int(match.group(3)) if match.group(3) else n
RegStat(f) == IF IsNum(f, 2) THEN f[2].n ELSE f[1].n

\* the registration pattern on one line: (\d+), then optionally ,(\d+), then
\* optionally ,"hex","hex", then optionally ,(\d+); what follows is ignored
RegLine(line) ==
    LET f == line.fields
        pair == IF IsNum(f, 2) THEN 3 ELSE 2
        hasPair == IsHex(f, pair) /\ IsHex(f, pair + 1)
        last == IF hasPair THEN pair + 2 ELSE pair
        reg_type == RegType(line.tag)
    IN IF ~(line.tag \in {"+CREG:", "+CGREG:", "+CEREG:"} /\ IsNum(f, 1))
       THEN EmptyDict
       ELSE ((reg_type \o "_status") :> RegStat(f))
            @@ ((reg_type \o "_status_text") :> RegStatusText(RegStat(f)))
            @@ (IF hasPair THEN ("lac" :> f[pair].s) @@ ("ci" :> f[pair + 1].s)
                ELSE EmptyDict)
            @@ (IF IsNum(f, last)
                THEN ("act" :> f[last].n) @@ ("act_text" :> RegActText(f[last].n))
                ELSE EmptyDict)

\* the loop over the lines: a later line replaces the entries of an earlier
RECURSIVE _parse_registration(_)
_parse_registration(lines) ==
    IF lines = <<>> THEN EmptyDict
    ELSE Update(_parse_registration(SubSeq(lines, 1, Len(lines) - 1)),
                RegLine(lines[Len(lines)]))

\* mutant: the bit error rate indexes the table without the clamp
BerIndex_Unclamped(ber) == ber
\* min(ber, 7)
BerIndex(ber) == IF ber < 7 THEN ber ELSE 7

\* the 8-entry range table of the bit error rate, by 0-based index
BerRange(i) ==
    CASE i = 0 -> "<0.2%"
      [] i = 1 -> "0.2-0.4%"
      [] i = 2 -> "0.4-0.8%"
      [] i = 3 -> "0.8-1.6%"
      [] i = 4 -> "1.6-3.2%"
      [] i = 5 -> "3.2-6.4%"
      [] i = 6 -> "6.4-12.8%"
      [] i = 7 -> ">12.8%"
      [] OTHER -> "IndexError"

\* the BER interpretation of _parse_csq
BerText(ber) ==
    IF ber = 99 THEN "Unknown or not detectable"
    ELSE ToString(ber) \o " (" \o BerRange(BerIndex(ber)) \o ")"

\* dbm = -109 + (rssi - 2) * 2
Dbm(rssi) == -109 + (rssi - 2) * 2

\* the RSSI conversion of _parse_csq
RssiDbm(rssi) ==
    CASE rssi = 0 -> "<= -113 dBm"
      [] rssi = 1 -> "-111 dBm"
      [] 2 <= rssi /\ rssi <= 30 -> ToString(Dbm(rssi)) \o " dBm"
      [] rssi = 31 -> ">= -51 dBm"
      [] OTHER -> "Unknown"

SignalQuality(rssi) ==
    CASE rssi = 0 -> "Very Poor"
      [] rssi = 1 -> "Very Poor"
      [] 2 <= rssi /\ rssi <= 30 ->
            IF rssi < 10 THEN "Poor"
            ELSE IF rssi < 15 THEN "Fair"
            ELSE IF rssi < 20 THEN "Good"
            ELSE "Excellent"
      [] rssi = 31 -> "Excellent"
      [] OTHER -> "Unknown"

\* the signal quality pattern on one line: \+CSQ:\s*(\d+),(\d+)
CsqLine(line) ==
    LET f == line.fields
    IN IF ~(line.tag = "+CSQ:" /\ IsNum(f, 1) /\ IsNum(f, 2))
       THEN EmptyDict
       ELSE ("rssi_raw" :> f[1].n) @@ ("ber_raw" :> f[2].n)
            @@ ("rssi_dbm" :> RssiDbm(f[1].n))
            @@ ("signal_quality" :> SignalQuality(f[1].n))
            @@ ("ber_text" :> BerText(f[2].n))

RECURSIVE _parse_csq(_)
_parse_csq(lines) ==
    IF lines = <<>> THEN EmptyDict
    ELSE Update(_parse_csq(SubSeq(lines, 1, Len(lines) - 1)),
                CsqLine(lines[Len(lines)]))

\* the PDP context pattern: \+CGDCONT:\s*(\d+),"([^"]*)","([^"]*)"(?:,"([^"]*)")?
CgdcontMatch(line) ==
    /\ line.tag = "+CGDCONT:"
    /\ IsNum(line.fields, 1) /\ IsQuoted(line.fields, 2) /\ IsQuoted(line.fields, 3)

\* mutant: the address is taken from the third field
PdpAddr_Apn(f) == f[3].s
\* match.group(4) if match.group(4) else ''
PdpAddr(f) == IF IsQuoted(f, 4) /\ f[4].s # "" THEN f[4].s ELSE ""

Context(line) ==
    [cid |-> line.fields[1].n, pdp_type |-> line.fields[2].s,
     apn |-> line.fields[3].s, pdp_addr |-> PdpAddr(line.fields)]

\* result['contexts'] after the loop over the lines
RECURSIVE Contexts(_)
Contexts(lines) ==
    IF lines = <<>> THEN <<>>
    ELSE LET before == Contexts(SubSeq(lines, 1, Len(lines) - 1))
             line == lines[Len(lines)]
         IN IF CgdcontMatch(line) THEN Append(before, Context(line)) ELSE before

_parse_cgdcont(lines) == "contexts" :> Contexts(lines)

\* the mode labels of _parse_cops
CopsModeText(mode) ==
    CASE mode = 0 -> "Automatic"
      [] mode = 1 -> "Manual"
      [] mode = 2 -> "Deregister"
      [] mode = 3 -> "Set format only"
      [] mode = 4 -> "Manual/Automatic"
      [] OTHER -> "Unknown (" \o ToString(mode) \o ")"

\* the access technology labels of _parse_cops
CopsActText(act) ==
    CASE act = 10 -> "E-UTRA connected to 5GCN"
      [] act = 11 -> "NR connected to 5GCN"
      [] OTHER -> RegActText(act)

\* the operator pattern on one line:
\* \+COPS:\s*(\d+)(?:,(\d+),"([^"]*)"(?:,(\d+))?)?
CopsLine(line) ==
    LET f == line.fields
        oper == IsNum(f, 2) /\ IsQuoted(f, 3)
    IN IF ~(line.tag = "+COPS:" /\ IsNum(f, 1))
       THEN EmptyDict
       ELSE ("mode" :> f[1].n) @@ ("mode_text" :> CopsModeText(f[1].n))
            @@ (IF oper THEN "format" :> f[2].n ELSE EmptyDict)
            @@ (IF oper /\ f[3].s # "" THEN "operator" :> f[3].s ELSE EmptyDict)
            @@ (IF oper /\ IsNum(f, 4)
                THEN ("access_tech" :> f[4].n)
                     @@ ("access_tech_text" :> CopsActText(f[4].n))
                ELSE EmptyDict)

RECURSIVE _parse_cops(_)
_parse_cops(lines) ==
    IF lines = <<>> THEN EmptyDict
    ELSE Update(_parse_cops(SubSeq(lines, 1, Len(lines) - 1)),
                CopsLine(lines[Len(lines)]))

\* the SIM status labels of _parse_cpin
SimStatusText(status) ==
    CASE status = "READY" -> "SIM is ready"
      [] status = "SIM PIN" -> "SIM requires PIN"
      [] status = "SIM PUK" -> "SIM requires PUK"
      [] status = "SIM PIN2" -> "SIM requires PIN2"
      [] status = "SIM PUK2" -> "SIM requires PUK2"
      [] OTHER -> status

\* line.split(':')[1].strip() of a +CPIN: line: the text after the colon
CpinLine(line) ==
    LET status == IF line.fields = <<>> THEN "" ELSE line.fields[1].s
    IN IF line.tag # "+CPIN:" THEN EmptyDict
       ELSE ("sim_status" :> status) @@ ("sim_ready" :> (status = "READY"))
            @@ ("sim_status_text" :> SimStatusText(status))

RECURSIVE _parse_cpin(_)
_parse_cpin(lines) ==
    IF lines = <<>> THEN EmptyDict
    ELSE Update(_parse_cpin(SubSeq(lines, 1, Len(lines) - 1)),
                CpinLine(lines[Len(lines)]))

\* a field as split(',') leaves it, and after strip('"')
Part(fld) ==
    CASE fld.k = "num" -> ToString(fld.n)
      [] fld.k \in {"hex", "str"} -> "\"" \o fld.s \o "\""
      [] OTHER -> fld.s
Stripped(fld) == IF fld.k = "num" THEN ToString(fld.n) ELSE fld.s

\* split(',') of the text after the tag: an empty text is one empty part
Parts(line) == IF line.fields = <<>> THEN <<Word("")>> ELSE line.fields

\* mutant: the serving cell fields are read whatever the number of parts
EnoughParts_Any(parts) == TRUE
\* len(parts) >= 15
EnoughParts(parts) == Len(parts) >= 15

\* the subscripts parts[1] .. parts[14] raise IndexError on a shorter list
QengRaises(line) ==
    /\ line.tag = "+QENG:"
    /\ Stripped(Parts(line)[1]) = "servingcell"
    /\ EnoughParts(Parts(line))
    /\ Len(Parts(line)) < 15

\* the serving cell information of one line (parts[i] is parts[i+1] here)
QengLine(line) ==
    LET parts == Parts(line)
    IN IF line.tag # "+QENG:" THEN EmptyDict
       ELSE ("servingcell_type" :> Stripped(parts[1]))
            @@ (IF Stripped(parts[1]) = "servingcell" /\ EnoughParts(parts)
                   /\ ~QengRaises(line)
                THEN ("state" :> Stripped(parts[2]))
                     @@ ("mode" :> Stripped(parts[3]))
                     @@ ("mcc" :> Stripped(parts[5]))
                     @@ ("mnc" :> Stripped(parts[6]))
                     @@ ("cellid" :> Stripped(parts[7]))
                     @@ ("pcid" :> Part(parts[8]))
                     @@ ("earfcn" :> Part(parts[9]))
                     @@ ("freq_band" :> Part(parts[10]))
                     @@ ("ul_bandwidth" :> Part(parts[11]))
                     @@ ("dl_bandwidth" :> Part(parts[12]))
                     @@ ("tac" :> Stripped(parts[13]))
                     @@ ("rsrp" :> Part(parts[14]) \o " dBm")
                     @@ ("rsrq" :> Part(parts[15]) \o " dB")
                     @@ ("rssi" :> IF Len(parts) > 15
                                   THEN Part(parts[16]) \o " dBm" ELSE "")
                     @@ ("sinr" :> IF Len(parts) > 16
                                   THEN Part(parts[17]) \o " dB" ELSE "")
                ELSE EmptyDict)

RECURSIVE _parse_qeng(_)
_parse_qeng(lines) ==
    IF lines = <<>> THEN EmptyDict
    ELSE Update(_parse_qeng(SubSeq(lines, 1, Len(lines) - 1)),
                QengLine(lines[Len(lines)]))

\* the network information pattern: three quoted fields and a number
QnwinfoLine(line) ==
    LET f == line.fields
    IN IF ~(/\ line.tag = "+QNWINFO:"
            /\ IsQuoted(f, 1) /\ IsQuoted(f, 2) /\ IsQuoted(f, 3) /\ IsNum(f, 4))
       THEN EmptyDict
       ELSE ("access_tech" :> f[1].s) @@ ("operator" :> f[2].s)
            @@ ("band" :> f[3].s) @@ ("channel" :> ToString(f[4].n))

RECURSIVE _parse_qnwinfo(_)
_parse_qnwinfo(lines) ==
    IF lines = <<>> THEN EmptyDict
    ELSE Update(_parse_qnwinfo(SubSeq(lines, 1, Len(lines) - 1)),
                QnwinfoLine(lines[Len(lines)]))

\* the service provider pattern: three quoted fields
QspnLine(line) ==
    LET f == line.fields
    IN IF ~(/\ line.tag = "+QSPN:"
            /\ IsQuoted(f, 1) /\ IsQuoted(f, 2) /\ IsQuoted(f, 3))
       THEN EmptyDict
       ELSE ("fnn" :> f[1].s) @@ ("snn" :> f[2].s) @@ ("spn" :> f[3].s)

RECURSIVE _parse_qspn(_)
_parse_qspn(lines) ==
    IF lines = <<>> THEN EmptyDict
    ELSE Update(_parse_qspn(SubSeq(lines, 1, Len(lines) - 1)),
                QspnLine(lines[Len(lines)]))

(***************************************************************************)
(* Texts that are searched are sequences of characters.                    *)
(***************************************************************************)
Lower == <<"a", "b", "c", "d", "e", "f", "g", "h", "i", "j", "k", "l", "m",
           "n", "o", "p", "q", "r", "s", "t", "u", "v", "w", "x", "y", "z">>
Capital == <<"A", "B", "C", "D", "E", "F", "G", "H", "I", "J", "K", "L", "M",
             "N", "O", "P", "Q", "R", "S", "T", "U", "V", "W", "X", "Y", "Z">>

\* str.upper
Upper(text) ==
    [i \in 1..Len(text) |->
        IF \E j \in 1..Len(Lower) : Lower[j] = text[i]
        THEN Capital[CHOOSE j \in 1..Len(Lower) : Lower[j] = text[i]]
        ELSE text[i]]

\* needle in text
Contains(text, needle) ==
    \E i \in 0..(Len(text) - Len(needle)) :
        SubSeq(text, i + 1, i + Len(needle)) = needle

\* mutant: the text is searched as it is
Folded_AsIs(text) == text
\* the manufacturer text is upper-cased before the keywords are looked for
Folded(text) == Upper(text)

QUECTEL ==
    <<"Q", "U", "E", "C", "T", "E", "L">>
SIERRA ==
    <<"S", "I", "E", "R", "R", "A">>
UBLOX ==
    <<"U", "B", "L", "O", "X">>
U_BLOX ==
    <<"U", "-", "B", "L", "O", "X">>
TELIT ==
    <<"T", "E", "L", "I", "T">>
SIMCOM ==
    <<"S", "I", "M", "C", "O", "M">>
Quectel ==
    <<"Q", "u", "e", "c", "t", "e", "l">>
SierraWireless ==
    <<"S", "i", "e", "r", "r", "a", " ", "W", "i", "r", "e", "l", "e", "s",
    "s">>
u_blox ==
    <<"u", "-", "b", "l", "o", "x">>
Telit ==
    <<"T", "e", "l", "i", "t">>
SimCom ==
    <<"S", "i", "m", "C", "o", "m">>
OKText ==
    <<"O", "K">>
ERRORText ==
    <<"E", "R", "R", "O", "R">>
CMEErrorTag ==
    <<"+", "C", "M", "E", " ", "E", "R", "R", "O", "R", ":">>

\* the characters of a line: a line without a tag is its text; of the tags
\* only "+CME ERROR:" is spelled out, any other tag and every field is one
\* piece that holds none of the texts looked for
LineChars(line) ==
    IF line.tag = "" THEN line.text
    ELSE IF line.tag = "OK" THEN OKText
    ELSE IF line.tag = "ERROR" THEN ERRORText
    ELSE (IF line.tag = "+CME ERROR:" THEN CMEErrorTag ELSE <<line.tag>>)
         \o (IF line.fields = <<>> THEN <<>> ELSE <<" ">>)
         \o [i \in 1..(2 * Len(line.fields) - 1) |->
                IF i % 2 = 1 THEN Part(line.fields[(i + 1) \div 2]) ELSE ","]

\* the response as send_at_command looks at it: which of OK and ERROR are in
\* it somewhere
InResponse(response) ==
    {w \in {"OK", "ERROR"} :
        \E i \in 1..Len(response) :
            Contains(LineChars(response[i]), IF w = "OK" THEN OKText ELSE ERRORText)}

(***************************************************************************)
(* _parse_response: the decoder is chosen by the text found in the command.*)
(***************************************************************************)
StandardTests ==
    <<"AT", "ATI", "AT+CGMI", "AT+CGMM", "AT+CGMR", "AT+CGSN", "AT+CPIN?",
      "AT+CCID", "AT+CIMI", "AT+CSQ", "AT+CREG?", "AT+CGREG?", "AT+CEREG?",
      "AT+COPS?", "AT+CGDCONT?">>
_get_quectel_tests == <<"AT+QENG=\"servingcell\"", "AT+QNWINFO", "AT+QSPN", "AT+QCCID">>
_get_sierra_tests == <<"AT!GSTATUS?", "AT+KCELLMEAS=1">>
_get_ublox_tests == <<"AT+UCGED?", "AT+UREG?">>

Range(seq) == {seq[i] : i \in 1..Len(seq)}
Commands ==
    Range(StandardTests) \cup Range(_get_quectel_tests)
        \cup Range(_get_sierra_tests) \cup Range(_get_ublox_tests)

\* the first of the texts the elif chain looks for that the command contains,
\* "" when it contains none of them
Family(command) ==
    CASE command = "AT+COPS?" -> "+COPS"
      [] command = "AT+CREG?" -> "+CREG"
      [] command = "AT+CGREG?" -> "+CGREG"
      [] command = "AT+CEREG?" -> "+CEREG"
      [] command = "AT+CSQ" -> "+CSQ"
      [] command = "AT+CGDCONT?" -> "+CGDCONT"
      [] command = "AT+CPIN?" -> "+CPIN"
      [] command = "AT+CIMI" -> "+CIMI"
      [] command = "AT+CCID" -> "+CCID"
      [] command = "AT+QCCID" -> "+QCCID"
      [] command = "AT+CGMI" -> "+CGMI"
      [] command = "AT+CGMM" -> "+CGMM"
      [] command = "AT+CGMR" -> "+CGMR"
      [] command = "AT+CGSN" -> "+CGSN"
      [] command = "ATI" -> "ATI"
      [] command = "AT+QENG=\"servingcell\"" -> "+QENG"
      [] command = "AT+QNWINFO" -> "+QNWINFO"
      [] command = "AT+QSPN" -> "+QSPN"
      [] OTHER -> ""

\* the lines left after the echo, OK and ERROR are removed
IsPayload(line) == line.tag \notin {"echo", "OK", "ERROR"}
Payload(response) == SelectSeq(response, IsPayload)

\* re.sub(r'[^0-9]', '', line): the digits of a line are those of its numbers
IsNumField(fld) == fld.k = "num"
OnlyDigits(line) ==
    LET nums == SelectSeq(line.fields, IsNumField)
    IN [i \in 1..Len(nums) |-> ToString(nums[i].n)]

\* the decoding raises: only the subscripts of _parse_qeng can
ParseRaises(command, response) ==
    /\ Family(command) = "+QENG"
    /\ \E i \in 1..Len(Payload(response)) : QengRaises(Payload(response)[i])

_parse_response(command, response) ==
    LET lines == Payload(response)
        family == Family(command)
        parsed == "raw" :> response
    IN IF lines = <<>> THEN parsed
       ELSE CASE family = "+COPS" -> Update(parsed, _parse_cops(lines))
              [] family \in {"+CREG", "+CGREG", "+CEREG"} ->
                    Update(parsed, _parse_registration(lines))
              [] family = "+CSQ" -> Update(parsed, _parse_csq(lines))
              [] family = "+CGDCONT" -> Update(parsed, _parse_cgdcont(lines))
              [] family = "+CPIN" -> Update(parsed, _parse_cpin(lines))
              [] family = "+CIMI" -> Update(parsed, "imsi" :> lines[1])
              [] family \in {"+CCID", "+QCCID"} ->
                    Update(parsed, "iccid" :> OnlyDigits(lines[1]))
              [] family = "+CGMI" -> Update(parsed, "manufacturer" :> lines[1])
              [] family = "+CGMM" -> Update(parsed, "model" :> lines[1])
              [] family = "+CGMR" -> Update(parsed, "firmware" :> lines[1])
              [] family = "+CGSN" -> Update(parsed, "imei" :> lines[1])
              [] family = "ATI" -> Update(parsed, "info" :> lines)
              [] family = "+QENG" -> Update(parsed, _parse_qeng(lines))
              [] family = "+QNWINFO" -> Update(parsed, _parse_qnwinfo(lines))
              [] family = "+QSPN" -> Update(parsed, _parse_qspn(lines))
              [] OTHER -> parsed

\* the ATResponse of send_at_command with its parsed_data: for a closed
\* handle, for an exception with its text ("" is no fault), for a response
Decoded(success, error, parsed_data) ==
    [success |-> success, error |-> error, parsed_data |-> parsed_data]
SendAT(command, c, fault, response) ==
    IF NoConnection(c) THEN Decoded(FALSE, "No connection", EmptyDict)
    ELSE IF fault # "" THEN Decoded(FALSE, OnException(fault).error, EmptyDict)
    ELSE IF ParseRaises(command, response)
    THEN Decoded(FALSE, OnException("list index out of range").error, EmptyDict)
    ELSE Decoded(ParseSuccess(InResponse(response)),
                 IF "ERROR" \in InResponse(response) THEN "ERROR" ELSE None,
                 _parse_response(command, response))

(***************************************************************************)
(* DiagnosticTests: the vendor of the modem and the tests of the run.      *)
(***************************************************************************)
\* self.modem_vendor: None, or a text
Unset == [set |-> FALSE, text |-> <<>>]
Vendor(text) == [set |-> TRUE, text |-> text]

\* detect_modem_vendor from the response to AT+CGMI; modem_vendor is None
\* before (DiagnosticTests.__init__)
detect_modem_vendor(manu_result) ==
    IF "manufacturer" \in DOMAIN manu_result.parsed_data
    THEN LET manufacturer == LineChars(manu_result.parsed_data["manufacturer"])
             manu == Folded(manufacturer)
         IN IF Contains(manu, QUECTEL) THEN Vendor(Quectel)
            ELSE IF Contains(manu, SIERRA) THEN Vendor(SierraWireless)
            ELSE IF Contains(manu, UBLOX) \/ Contains(manu, U_BLOX) THEN Vendor(u_blox)
            ELSE IF Contains(manu, TELIT) THEN Vendor(Telit)
            ELSE IF Contains(manu, SIMCOM) THEN Vendor(SimCom)
            ELSE Vendor(manufacturer)
    ELSE Unset

\* the tests of run_full_diagnostic: the standard ones and those of the vendor
Tests(modem_vendor) ==
    StandardTests
        \o (IF modem_vendor = Vendor(Quectel) THEN _get_quectel_tests
            ELSE IF modem_vendor = Vendor(SierraWireless) THEN _get_sierra_tests
            ELSE IF modem_vendor = Vendor(u_blox) THEN _get_ublox_tests
            ELSE <<>>)

(***************************************************************************)
(* test_port_for_modem: results and the pre-flight checks.                 *)
(***************************************************************************)
\* thread_timeout in tenths of a second
QuickTimeoutTenths == 10
FullTimeoutTenths == 50

\* the (success, error) pair a probe returns; error is the reason text, with
\* the values formatted into it kept as fields
Reason(msg, errno, strerror) == [msg |-> msg, errno |-> errno, strerror |-> strerror]
NoError == Reason(None, 0, "")
Result(ok, error) == [ok |-> ok, error |-> error]

ErrSkip == Reason("Port in skip list (MODEMO_SKIP_PORTS)", 0, "")
ErrNotFound == Reason("Port does not exist", 0, "")
ErrPermission == Reason("Permission denied", 0, "")
ErrLocked == Reason("Port locked by another process", 0, "")
\* mutant: the reason without the values of the OSError
ErrUnavailable_Generic(e) == Reason("Port unavailable", 0, "")
ErrUnavailable(e) == Reason("Port unavailable", e.errno, e.strerror)
ErrTimeout(quick_test) ==
    Reason("Timeout - port may be unresponsive",
           IF quick_test THEN QuickTimeoutTenths ELSE FullTimeoutTenths, "")
ErrNoAT == Reason("No AT response", 0, "")
ErrCannotOpen == Reason("Cannot open port", 0, "")
ErrException == Reason("exception", 0, "close failed")

\* the OSErrors os.open can raise; NoOSError when it returns a descriptor
NoOSError == [errno |-> 0, strerror |-> ""]
ENOENT == [errno |-> 2, strerror |-> "No such file or directory"]
EACCES == [errno |-> 13, strerror |-> "Permission denied"]
EBUSY == [errno |-> 16, strerror |-> "Device or resource busy"]
EIO == [errno |-> 5, strerror |-> "Input/output error"]

\* what the file system says about a path when a probe looks at it
Envs ==
    {e \in [exists : BOOLEAN, access : BOOLEAN, lock : BOOLEAN,
            openErr : {NoOSError, ENOENT, EACCES, EBUSY, EIO}] :
        /\ ~e.exists => (~e.access /\ e.openErr = ENOENT)
        /\ (e.exists /\ ~e.access) => e.openErr = EACCES
        /\ (e.exists /\ e.access) => e.openErr \in {NoOSError, EBUSY, EIO}}

\* an environment in which every check passes
FineEnv == [exists |-> TRUE, access |-> TRUE, lock |-> FALSE, openErr |-> NoOSError]

\* the checks before the thread is started: r is the result they return, or
\* NoResult when the probe goes on to the thread; io tells whether the
\* os.open of the path was reached
NoResult == Result(FALSE, Reason("no result", 0, ""))
Checked(r, io) == [r |-> r, io |-> io]
\* mutant: the checks without the permission check
Preflight_NoAccessCheck(port, e, linux, skip) ==
    IF port \in skip THEN Checked(Result(FALSE, ErrSkip), FALSE)
    ELSE IF ~linux THEN Checked(NoResult, FALSE)
    ELSE IF ~e.exists THEN Checked(Result(FALSE, ErrNotFound), FALSE)
    ELSE IF e.lock THEN Checked(Result(FALSE, ErrLocked), FALSE)
    ELSE IF e.openErr # NoOSError THEN Checked(Result(FALSE, ErrUnavailable(e.openErr)), TRUE)
    ELSE Checked(NoResult, TRUE)
Preflight(port, e, linux, skip) ==
    IF port \in skip THEN Checked(Result(FALSE, ErrSkip), FALSE)
    ELSE IF ~linux THEN Checked(NoResult, FALSE)
    ELSE IF ~e.exists THEN Checked(Result(FALSE, ErrNotFound), FALSE)
    ELSE IF ~e.access THEN Checked(Result(FALSE, ErrPermission), FALSE)
    ELSE IF e.lock THEN Checked(Result(FALSE, ErrLocked), FALSE)
    ELSE IF e.openErr # NoOSError THEN Checked(Result(FALSE, ErrUnavailable(e.openErr)), TRUE)
    ELSE Checked(NoResult, TRUE)

(***************************************************************************)
(* State.                                                                  *)
(***************************************************************************)
VARIABLES
    IS_LINUX,                 \* platform.system() == 'Linux' (else Windows)
    SKIP_PORTS,               \* the deny-list read at start-up
    pc,                       \* position of the main thread
    cmCaller,                 \* call site of the running connect_modem
    reconnects,               \* "Change Connection/Port" choices so far
    mmActive,                 \* the ModemManager service is running
    mm_local,                 \* auto_detect_modem's local modemmanager_was_stopped
    modemmanager_was_stopped, \* ModemDiagnosticTool.modemmanager_was_stopped
    leaseHeld,                \* stop_temporarily succeeded and restart was not called since
    ports,                    \* auto_detect_modem's ports
    idx,                      \* index of the candidate being probed
    bidx,                     \* index of the fallback baud being probed
    phase,                    \* 1 or 2 while auto_detect_modem scans, else 0
    working_ports,            \* auto_detect_modem's working_ports
    probe,                    \* arguments and progress of the running test_port_for_modem
    ret,                      \* what the last test_port_for_modem returned
    probeLog,                 \* the calls of test_port_for_modem of this detection, in order
    shown,                    \* the description of the progress task of the scan
    workers,                  \* the worker threads, by slot
    result_container,         \* each thread's result_container
    cur,                      \* slot of the thread of the running probe, 0 if none
    modem,                    \* ModemDiagnosticTool.modem
    connected,                \* ModemDiagnosticTool.connected
    wire,                     \* what went over the serial line in the last call
    selected,                 \* what auto_detect_modem returns to connect_modem
    diag                      \* a command of the diagnostic run and what it decoded

vars == <<IS_LINUX, SKIP_PORTS, pc, cmCaller, reconnects, mmActive, mm_local,
          modemmanager_was_stopped, leaseHeld, ports, idx, bidx, phase,
          working_ports, probe, ret, probeLog, shown, workers,
          result_container, cur, modem, connected, wire, selected, diag>>

configVars == <<IS_LINUX, SKIP_PORTS>>
leaseVars == <<mmActive, mm_local, modemmanager_was_stopped, leaseHeld>>
scanVars == <<ports, idx, bidx, phase, working_ports, probeLog, shown>>
\* the scan's variables that only auto_detect_modem's own statements set
loopVars == <<ports, idx, bidx, phase, working_ports, probeLog>>
threadVars == <<workers, result_container, cur>>
sessionVars == <<modem, connected>>

Paths == IF IS_LINUX THEN LinuxPaths ELSE WindowsPaths

NoPath == Dev("none", 0)
NoModem == ModemConnection(NoPath)
NoProbe == [port |-> NoPath, baudrate |-> 0, quick_test |-> FALSE,
            env |-> FineEnv, checked |-> FALSE, started |-> FALSE, io |-> FALSE,
            rtscts |-> None, hs |-> "none", at |-> "none", closed |-> FALSE]
\* a thread: its ModemConnection, its position, and whether it took a step
\* after its probe had returned
\* what the progress task shows: the kind of text and the reason in it
Shown(kind, error) == [kind |-> kind, error |-> error]
NoShown == Shown("none", NoError)
\* the serial line as a caller of ModemConnection sees it: the last
\* operation and the one before the last command, the handshake writes made
\* per setting in the running connect, the kind of the last handshake event,
\* the text drained so far, the text of the exception the last command met,
\* the value returned by connect, the last ATResponse, the parity of the
\* polls, the number of serial handles the connection has open, and the
\* setting of the last handshake write
NoResponse == ATResponse(FALSE, None, FALSE)
NoWire == [op |-> "none", prev |-> "none", writes |-> <<0, 0>>, ev |-> "none",
           r |-> {}, text |-> "", result |-> "none", resp |-> NoResponse,
           tick |-> FALSE, handles |-> 0, setting |-> None]
\* the value auto_detect_modem returns: the pair of the selected entry, or
\* NoPath and 0 for None; with it the working list it was taken from, whether
\* the operator was asked, what was typed (0 for the empty line) and the
\* default of the prompt
Selection(port, baudrate, working, asked, input, default) ==
    [port |-> port, baudrate |-> baudrate, working |-> working, asked |-> asked,
     input |-> input, default |-> default]
NoSelection == Selection(NoPath, 0, <<>>, FALSE, 0, 0)
\* nothing has been sent by the diagnostic run
NoDiag == [command |-> "", response |-> <<>>, isopen |-> FALSE, fault |-> "",
           resp |-> Decoded(FALSE, None, EmptyDict)]
NoWorker == [conn |-> NoModem, wpc |-> "none", late |-> FALSE]
NoContainer == Result(FALSE, Reason("no container", 0, ""))
\* result_container as test_port_for_modem creates it
InitialContainer == Result(FALSE, Reason("Timeout", 0, ""))

Slots == 1..(MaxAbandoned + 1)
Live(s) == workers[s].wpc \in {"connect", "send"}
\* the abandoned workers that still run
Abandoned == {s \in Slots : s # cur /\ Live(s)}

Init ==
    /\ IS_LINUX \in BOOLEAN
    /\ SKIP_PORTS = IF IS_LINUX THEN {Dev("ttyUSB", 1)} ELSE {Dev("COM", 1)}
    /\ pc = "run"
    /\ cmCaller = "none"
    /\ reconnects = 0
    /\ mmActive \in BOOLEAN
    /\ IS_LINUX \/ ~mmActive
    /\ mm_local = FALSE
    /\ modemmanager_was_stopped = FALSE
    /\ leaseHeld = FALSE
    /\ ports = <<>>
    /\ idx = 0
    /\ bidx = 0
    /\ phase = 0
    /\ working_ports = <<>>
    /\ probe = NoProbe
    /\ ret = NoResult
    /\ probeLog = <<>>
    /\ shown = NoShown
    /\ workers = [s \in Slots |-> NoWorker]
    /\ result_container = [s \in Slots |-> NoContainer]
    /\ cur = 0
    /\ modem = NoModem
    /\ connected = FALSE
    /\ wire = NoWire
    /\ selected = NoSelection
    /\ diag = NoDiag

(***************************************************************************)
(* The worker thread of a probe (test_thread).  Its steps are its blocking *)
(* calls: the open of a flow-control setting, a handshake attempt, and the *)
(* AT command; a thread that takes no further step hangs in its call.      *)
(***************************************************************************)
\* mutant: one container shared by the calls
ContainerOf_Shared(s) == IF cur # 0 THEN cur ELSE s
\* the container a thread writes its result to: the one of its own call
ContainerOf(s) == s

\* test_thread returns: the result is written and the thread ends.  The
\* thread of the running probe stays, ended, until is_alive() sees it; an
\* abandoned thread is gone with its container.
ThreadEnd(s, c, result) ==
    /\ workers' = [workers EXCEPT ![s] =
                     IF s = cur THEN [conn |-> ConnectEnd(c), wpc |-> "done", late |-> FALSE]
                     ELSE NoWorker]
    /\ result_container' =
         LET written == [result_container EXCEPT ![ContainerOf(s)] = result]
         IN IF s = cur THEN written ELSE [written EXCEPT ![s] = NoContainer]

\* connect() went one step: it returned False, returned True, or goes on
ThreadConnectStep(s, c) ==
    IF c.cpc = "false" THEN ThreadEnd(s, c, Result(FALSE, ErrCannotOpen))
    ELSE /\ workers' = [workers EXCEPT ![s] =
                          IF c.cpc = "true"
                          THEN [conn |-> ConnectEnd(c), wpc |-> "send", late |-> s # cur]
                          ELSE [conn |-> c, wpc |-> "connect", late |-> s # cur]]
         /\ UNCHANGED result_container

\* mutant: the error of the initial container is left in place
ThreadResult_KeepsError(result, closeFault) ==
    Result(~closeFault /\ result.success, InitialContainer.error)
\* mutant: connect() returning True is enough
ThreadResult_ConnectOnly(result, closeFault) ==
    IF closeFault THEN Result(FALSE, ErrException) ELSE Result(TRUE, NoError)
\* what test_thread puts into result_container after connect() returned
\* True: result is the ATResponse of the AT command
ThreadResult(result, closeFault) ==
    IF closeFault THEN Result(FALSE, ErrException)
    ELSE IF result.success THEN Result(TRUE, NoError)
    ELSE Result(FALSE, ErrNoAT)

\* the thread opens the device: what the checks saw before is not kept further
W_Open(s) ==
    /\ workers[s].wpc = "connect"
    /\ workers[s].conn.cpc = "open"
    /\ \E ev \in OpenEvents : ThreadConnectStep(s, ConnectOpen(workers[s].conn, ev))
    /\ probe' = IF s = cur THEN [probe EXCEPT !.io = TRUE, !.env = FineEnv] ELSE probe
    /\ UNCHANGED <<configVars, diag, wire, selected, pc, cmCaller, reconnects, leaseVars, scanVars, ret,
                   cur, sessionVars>>

\* what the device sent back to a handshake write
HsText(r) == IF "OK" \in r THEN "OK" ELSE IF "AT" \in r THEN "echo" ELSE "none"

\* the probe keeps the answer with which connect() returned True
W_Handshake(s) ==
    /\ workers[s].wpc = "connect"
    /\ workers[s].conn.cpc = "hs"
    /\ \E ev \in HandshakeEvents :
          LET c == ConnectHandshake(workers[s].conn, ev)
          IN /\ ThreadConnectStep(s, c)
             /\ probe' = IF s = cur /\ c.cpc = "true"
                         THEN [probe EXCEPT !.hs = HsText(ev.r)]
                         ELSE probe
    /\ UNCHANGED <<configVars, diag, wire, selected, pc, cmCaller, reconnects, leaseVars, scanVars,
                   ret, cur, sessionVars>>

\* send_at_command("AT"), disconnect() and the result; closeFault is true
\* when disconnect() raised, which the thread's handler turns into a failure
W_Send(s) ==
    /\ workers[s].wpc = "send"
    /\ \E ev \in SendEvents, closeFault \in BOOLEAN :
          LET result == send_at_command(workers[s].conn, ev)
          IN /\ ThreadEnd(s, disconnect(workers[s].conn),
                          ThreadResult(result, closeFault))
             /\ probe' = IF s = cur
                         THEN [probe EXCEPT
                                 !.at = IF result.success THEN "OK" ELSE "fail",
                                 !.closed = ~closeFault]
                         ELSE probe
    /\ UNCHANGED <<configVars, diag, wire, selected, pc, cmCaller, reconnects, leaseVars, scanVars,
                   ret, cur, sessionVars>>

(***************************************************************************)
(* test_port_for_modem, run by the main thread.                            *)
(***************************************************************************)
\* the call: the arguments are set and the checks have not run yet
CallProbe(port, baudrate, quick_test) ==
    [port |-> port, baudrate |-> baudrate, quick_test |-> quick_test,
     env |-> FineEnv, checked |-> FALSE, started |-> FALSE, io |-> FALSE,
     rtscts |-> None, hs |-> "none", at |-> "none", closed |-> FALSE]

FreeSlot == CHOOSE s \in Slots : workers[s] = NoWorker /\ \A t \in Slots : t < s => workers[t] # NoWorker

\* the skip list, the pre-flight checks and, when they pass, the thread start;
\* the caller's progress.update to "Testing ..." right before the call is
\* taken with it
TP_Preflight ==
    /\ pc = "tp_pre"
    /\ \E e \in Envs :
          LET pre == Preflight(probe.port, e, IS_LINUX, SKIP_PORTS)
              r == pre.r
              io == pre.io
          IN IF r # NoResult
             THEN /\ ret' = r
                  /\ probe' = [probe EXCEPT !.env = e, !.checked = TRUE, !.io = io]
                  /\ pc' = "tp_ret"
                  /\ UNCHANGED threadVars
             ELSE /\ probe' = [probe EXCEPT !.env = e, !.checked = TRUE, !.io = io,
                                            !.started = TRUE]
                  /\ workers' = [workers EXCEPT ![FreeSlot] =
                        [conn |-> ConnectBegin(ModemConnection(probe.port),
                                               probe.quick_test),
                         wpc |-> "connect", late |-> FALSE]]
                  /\ result_container' = [result_container EXCEPT ![FreeSlot] =
                        InitialContainer]
                  /\ cur' = FreeSlot
                  /\ pc' = "tp_join"
                  /\ ret' = ret
    /\ shown' = Shown("Testing", NoError)
    /\ UNCHANGED <<configVars, diag, wire, selected, cmCaller, reconnects, leaseVars, loopVars, sessionVars>>

\* mutant: a join without timeout
JoinReturns_NoTimeout == ~Live(cur)
\* thread.join(timeout) returns when the thread ended or the timeout elapsed,
\* whatever the thread does
JoinReturns == TRUE

\* thread.join(timeout) returns; what the checks saw is not kept further
TP_Join ==
    /\ pc = "tp_join"
    /\ pc' = "tp_alive"
    /\ JoinReturns
    /\ probe' = [probe EXCEPT !.env = FineEnv]
    /\ UNCHANGED <<configVars, diag, wire, selected, cmCaller, reconnects, leaseVars, scanVars, ret,
                   threadVars, sessionVars>>

\* thread.is_alive() and the return; an abandoned thread is followed when
\* fewer than cap abandoned threads are
IsAlive(cap) ==
    /\ pc = "tp_alive"
    /\ IF Live(cur)
       THEN /\ ret' = Result(FALSE, ErrTimeout(probe.quick_test))
            /\ probe' = probe
            /\ IF Cardinality(Abandoned) < cap
               THEN UNCHANGED <<workers, result_container>>
               ELSE /\ workers' = [workers EXCEPT ![cur] = NoWorker]
                    /\ result_container' = [result_container EXCEPT ![cur] = NoContainer]
       ELSE /\ ret' = result_container[cur]
            /\ probe' = [probe EXCEPT !.rtscts = workers[cur].conn.rtscts]
            /\ workers' = [workers EXCEPT ![cur] = NoWorker]
            /\ result_container' = [result_container EXCEPT ![cur] = NoContainer]
    /\ cur' = 0
    /\ pc' = "tp_ret"
    /\ UNCHANGED <<configVars, diag, wire, selected, cmCaller, reconnects, leaseVars, scanVars, sessionVars>>

(***************************************************************************)
(* auto_detect_modem.                                                      *)
(***************************************************************************)
\* _restart_modemmanager_if_needed with the flag value given: when the flag
\* is set (on Linux) ModemManagerHelper.restart() is called, which may fail,
\* and the flag is cleared
RestartIfNeeded(flag) ==
    IF flag /\ IS_LINUX
    THEN /\ leaseHeld' = FALSE
         /\ mmActive' \in BOOLEAN
         /\ modemmanager_was_stopped' = FALSE
    ELSE /\ modemmanager_was_stopped' = flag
         /\ UNCHANGED <<leaseHeld, mmActive>>

\* connect_modem returns to its caller: run() goes to the menu, to the retry
\* question or returns; the menu goes on
AfterConnectModem(ok) ==
    CASE cmCaller = "run1" -> IF ok THEN "menu" ELSE "run_retry"
      [] cmCaller = "run2" -> IF ok THEN "menu" ELSE "exit"
      [] cmCaller = "menu" -> "menu"

\* an exception leaves connect_modem: run() has no handler around its calls of
\* connect_modem, the menu runs inside run()'s try/finally
AfterException == IF cmCaller = "menu" THEN "finally" ELSE "exit"

\* the ModemManager question, detect_serial_ports, and the first probe of
\* Phase 1 or the return when no port is found
AD_Begin ==
    /\ pc = "ad_begin"
    /\ \E stop \in BOOLEAN, present \in SUBSET Paths, udevFail \in SUBSET Paths :
          /\ udevFail \in {{}, present}
          /\ IS_LINUX \/ udevFail = {}
          /\ stop => (IS_LINUX /\ mmActive)
          /\ LET found == detect_serial_ports(IS_LINUX, present, udevFail)
             IN /\ ports' = found
                /\ working_ports' = <<>>
                /\ probeLog' = <<>>
                /\ shown' = NoShown
                /\ bidx' = 0
                /\ IF found = <<>>
                   THEN /\ IF stop
                           THEN RestartIfNeeded(TRUE)
                           ELSE UNCHANGED <<leaseHeld, mmActive, modemmanager_was_stopped>>
                        /\ mm_local' = FALSE
                        /\ idx' = 0
                        /\ phase' = 0
                        /\ probe' = probe
                        /\ pc' = "cm_autofail"
                   ELSE /\ mm_local' = stop
                        /\ leaseHeld' = (leaseHeld \/ stop)
                        /\ mmActive' = (mmActive /\ ~stop)
                        /\ modemmanager_was_stopped' = modemmanager_was_stopped
                        /\ idx' = 1
                        /\ phase' = 1
                        /\ probe' = CallProbe(found[1].path, primary_baudrate, TRUE)
                        /\ pc' = "tp_pre"
    /\ UNCHANGED <<configVars, diag, wire, selected, cmCaller, reconnects, ret, threadVars, sessionVars>>

Entry(port, baudrate, info) == [port |-> port, baudrate |-> baudrate, info |-> info]
LogEntry(r) ==
    [port |-> probe.port, baudrate |-> probe.baudrate, quick_test |-> probe.quick_test,
     ok |-> r.ok]

\* mutants: Phase 1 without the break, and Phase 1 giving up at a failure
Phase1Continues_NoBreak(is_working) == TRUE
Phase1Continues_Abort(is_working) == FALSE
\* the Phase 1 loop goes on after a probe unless it breaks on a success
Phase1Continues(is_working) == ~is_working

\* mutant: the bauds of a candidate are all tried, success or not
Phase2NextBaud_NoBreak(is_working) == TRUE
\* the loop over the fallback bauds of a candidate goes on unless it breaks
Phase2NextBaud(is_working) == ~is_working

\* mutant: Phase 2 runs whatever Phase 1 found
Phase2Runs_Always(working) == TRUE
\* Phase 2 runs when working_ports is empty after Phase 1
Phase2Runs(working) == working = <<>>

\* the substring tests on the error text: "Timeout" in error, "Permission" in error
HasTimeout(error) == error.msg = ErrTimeout(TRUE).msg
HasPermission(error) == error.msg = ErrPermission.msg \/ error.strerror = EACCES.strerror

\* what Phase 1 puts into the progress description for a returned probe:
\* other failures are printed in debug mode only and leave the text as it was
Phase1Shows(r, before) ==
    IF r.ok THEN Shown("WORKING", NoError)
    ELSE IF HasTimeout(r.error) THEN Shown("Timeout (skipping)", NoError)
    ELSE IF HasPermission(r.error) THEN Shown("error", r.error)
    ELSE before

\* what Phase 2 puts there: the error of a probe is not read; a candidate
\* left without a working baud is shown as "No response"
Phase2Shows(r, lastBaud, before) ==
    IF r.ok THEN Shown("WORKING", NoError)
    ELSE IF lastBaud THEN Shown("No response", NoError)
    ELSE before

\* Phase 1 after a probe returned: a success ends the scan, a failure moves
\* to the next candidate
P1_Ret ==
    /\ pc = "tp_ret"
    /\ phase = 1
    /\ probeLog' = Append(probeLog, LogEntry(ret))
    /\ shown' = Phase1Shows(ret, shown)
    /\ working_ports' = IF ret.ok
                        THEN Append(working_ports,
                                    Entry(probe.port, primary_baudrate, ports[idx]))
                        ELSE working_ports
    /\ IF Phase1Continues(ret.ok) /\ idx < Len(ports)
       THEN /\ idx' = idx + 1
            /\ probe' = CallProbe(ports[idx + 1].path, primary_baudrate, TRUE)
            /\ pc' = "tp_pre"
       ELSE /\ pc' = "p2_check"
            /\ probe' = NoProbe
            /\ UNCHANGED idx
    /\ ret' = NoResult
    /\ UNCHANGED <<configVars, diag, wire, selected, cmCaller, reconnects, leaseVars, ports, bidx, phase,
                   threadVars, sessionVars>>

\* Phase 2 is entered when Phase 1 found nothing
P2_Check ==
    /\ pc = "p2_check"
    /\ IF Phase2Runs(working_ports)
       THEN /\ phase' = 2
            /\ idx' = 1
            /\ bidx' = 1
            /\ probe' = CallProbe(ports[1].path, fallback_baudrates[1], FALSE)
            /\ pc' = "tp_pre"
       ELSE /\ phase' = 0
            /\ pc' = "ad_select"
            /\ UNCHANGED <<idx, bidx, probe>>
    /\ shown' = NoShown
    /\ UNCHANGED <<configVars, diag, wire, selected, cmCaller, reconnects, leaseVars, ports, working_ports,
                   probeLog, ret, threadVars, sessionVars>>

\* Phase 2 after a probe returned: a success ends the bauds of this
\* candidate, a failure moves to the next baud, then to the next candidate
P2_Ret ==
    /\ pc = "tp_ret"
    /\ phase = 2
    /\ probeLog' = Append(probeLog, LogEntry(ret))
    /\ shown' = Phase2Shows(ret, bidx = Len(fallback_baudrates), shown)
    /\ working_ports' = IF ret.ok
                        THEN Append(working_ports,
                                    Entry(probe.port, probe.baudrate, ports[idx]))
                        ELSE working_ports
    /\ IF Phase2NextBaud(ret.ok) /\ bidx < Len(fallback_baudrates)
       THEN /\ bidx' = bidx + 1
            /\ probe' = CallProbe(probe.port, fallback_baudrates[bidx + 1], FALSE)
            /\ pc' = "tp_pre"
            /\ UNCHANGED <<idx, phase>>
       ELSE IF idx < Len(ports)
       THEN /\ idx' = idx + 1
            /\ bidx' = 1
            /\ probe' = CallProbe(ports[idx + 1].path, fallback_baudrates[1], FALSE)
            /\ pc' = "tp_pre"
            /\ UNCHANGED phase
       ELSE /\ phase' = 0
            /\ pc' = "ad_select"
            /\ probe' = NoProbe
            /\ UNCHANGED <<idx, bidx>>
    /\ ret' = NoResult
    /\ UNCHANGED <<configVars, diag, wire, selected, cmCaller, reconnects, leaseVars, ports, threadVars,
                   sessionVars>>

\* 'ttyUSB<k>' in port_path
InPath(k, path) ==
    /\ path.cls = "ttyUSB"
    /\ Len(Digits(path.num)) >= Len(Digits(k))
    /\ SubSeq(Digits(path.num), 1, Len(Digits(k))) = Digits(k)

\* the loop that recommends a port: the entries from index i on, with the
\* recommendation so far (0 for None)
RECURSIVE Recommend(_, _, _)
Recommend(working, i, recommended) ==
    IF i > Len(working) THEN recommended
    ELSE IF InPath(2, working[i].port) THEN i
    ELSE IF InPath(1, working[i].port) /\ recommended = 0
    THEN Recommend(working, i + 1, i)
    ELSE Recommend(working, i + 1, recommended)

\* default_choice of the prompt
DefaultChoice(working) ==
    IF Recommend(working, 1, 0) # 0 THEN Recommend(working, 1, 0) ELSE 1

\* mutant: the recommendation is taken whatever is typed
Chosen_Recommended(input, default) == default
\* Prompt.ask with a default: the empty line gives the default
Chosen(input, default) == IF input = 0 THEN default ELSE input

\* the selection: None without a working pair, the only pair, or the pair
\* the operator chooses; the locals of auto_detect_modem end here
AD_Select ==
    /\ pc = "ad_select"
    /\ modemmanager_was_stopped' = (modemmanager_was_stopped \/ mm_local)
    /\ IF working_ports = <<>>
       THEN selected' = NoSelection
       ELSE IF Len(working_ports) = 1
       THEN selected' = Selection(working_ports[1].port, working_ports[1].baudrate,
                                  working_ports, FALSE, 0, 0)
       ELSE \E input \in 0..Len(working_ports) :
               LET default == DefaultChoice(working_ports)
                   choice == Chosen(input, default)
               IN selected' = Selection(working_ports[choice].port,
                                        working_ports[choice].baudrate,
                                        working_ports, TRUE, input, default)
    /\ pc' = "cm_result"
    /\ mm_local' = FALSE
    /\ ports' = <<>>
    /\ idx' = 0
    /\ bidx' = 0
    /\ working_ports' = <<>>
    /\ probeLog' = <<>>
    /\ shown' = NoShown
    /\ UNCHANGED <<configVars, diag, wire, cmCaller, reconnects, mmActive, leaseHeld, phase,
                   probe, ret, threadVars, sessionVars>>

(***************************************************************************)
(* connect_modem.                                                          *)
(***************************************************************************)
\* the option prompt: auto-detection, or manual configuration with the port
\* and baud rate the operator enters
CM_Choice ==
    /\ pc = "cm_choice"
    /\ \/ /\ pc' = "ad_begin"
          /\ UNCHANGED modem
       \/ \E port \in Paths :
             /\ modem' = ConnectBegin(ModemConnection(port), FALSE)
             /\ pc' = "cm_connect"
    /\ UNCHANGED <<configVars, diag, wire, selected, cmCaller, reconnects, leaseVars, scanVars, probe, ret,
                   threadVars, connected>>

\* connect_modem has the result of auto_detect_modem: a pair goes to the
\* connection, None to the offer of manual configuration
CM_Result ==
    /\ pc = "cm_result"
    /\ IF selected.port = NoPath
       THEN /\ pc' = "cm_autofail"
            /\ UNCHANGED modem
       ELSE /\ modem' = ConnectBegin(ModemConnection(selected.port), FALSE)
            /\ pc' = "cm_connect"
    /\ selected' = NoSelection
    /\ UNCHANGED <<configVars, diag, wire, cmCaller, reconnects, leaseVars, scanVars, probe, ret,
                   threadVars, connected>>

\* auto-detection returned None: manual configuration is offered
CM_AutoFail ==
    /\ pc = "cm_autofail"
    /\ \/ \E port \in Paths :
             /\ modem' = ConnectBegin(ModemConnection(port), FALSE)
             /\ pc' = "cm_connect"
       \/ /\ pc' = AfterConnectModem(FALSE)
          /\ UNCHANGED modem
    /\ UNCHANGED <<configVars, diag, wire, selected, cmCaller, reconnects, leaseVars, scanVars, probe, ret,
                   threadVars, connected>>

\* int(Prompt.ask("Enter baud rate")) raises ValueError on a text that is no
\* number, in either manual configuration
CM_BadInput ==
    /\ pc \in {"cm_choice", "cm_autofail"}
    /\ pc' = AfterException
    /\ UNCHANGED <<configVars, diag, wire, selected, cmCaller, reconnects, leaseVars, scanVars, probe, ret,
                   threadVars, sessionVars>>

\* self.modem.connect(), run by the main thread without a timeout
ModemConnectStep(c) ==
    IF c.cpc = "false"
    THEN /\ modem' = ConnectEnd(c)
         /\ connected' = FALSE
         /\ pc' = AfterConnectModem(FALSE)
    ELSE /\ modem' = IF c.cpc = "true" THEN ConnectEnd(c) ELSE c
         /\ connected' = connected
         /\ pc' = IF c.cpc = "true" THEN "cm_test" ELSE "cm_connect"

MC_Open ==
    /\ pc = "cm_connect"
    /\ modem.cpc = "open"
    /\ \E ev \in OpenEvents : ModemConnectStep(ConnectOpen(modem, ev))
    /\ UNCHANGED <<configVars, diag, wire, selected, cmCaller, reconnects, leaseVars, scanVars, probe, ret,
                   threadVars>>

MC_Handshake ==
    /\ pc = "cm_connect"
    /\ modem.cpc = "hs"
    /\ \E ev \in HandshakeEvents : ModemConnectStep(ConnectHandshake(modem, ev))
    /\ UNCHANGED <<configVars, diag, wire, selected, cmCaller, reconnects, leaseVars, scanVars, probe, ret,
                   threadVars>>

\* the AT test after connect() returned True
CM_Test ==
    /\ pc = "cm_test"
    /\ \E ev \in SendEvents :
          LET result == send_at_command(modem, ev)
          IN /\ connected' = result.success
             /\ pc' = AfterConnectModem(result.success)
    /\ UNCHANGED <<configVars, diag, wire, selected, cmCaller, reconnects, leaseVars, scanVars, probe, ret,
                   threadVars, modem>>

(***************************************************************************)
(* run and main_menu.                                                      *)
(***************************************************************************)
Run_Start ==
    /\ pc = "run"
    /\ cmCaller' = "run1"
    /\ pc' = "cm_choice"
    /\ UNCHANGED <<configVars, diag, wire, selected, reconnects, leaseVars, scanVars, probe, ret, threadVars,
                   sessionVars>>

\* "Retry connection?": run() returns, or calls connect_modem again
Run_Retry ==
    /\ pc = "run_retry"
    /\ \/ /\ pc' = "exit"
          /\ UNCHANGED cmCaller
       \/ /\ cmCaller' = "run2"
          /\ pc' = "cm_choice"
    /\ UNCHANGED <<configVars, diag, wire, selected, reconnects, leaseVars, scanVars, probe, ret, threadVars,
                   sessionVars>>

\* menu choice 0, or an exception raised by a menu operation
Menu_Leave ==
    /\ pc = "menu"
    /\ pc' = "finally"
    /\ UNCHANGED <<configVars, diag, wire, selected, cmCaller, reconnects, leaseVars, scanVars, probe, ret,
                   threadVars, sessionVars>>

\* menu choice 6: disconnect and connect_modem
Menu_Change ==
    /\ pc = "menu"
    /\ reconnects < MaxReconnects
    /\ reconnects' = reconnects + 1
    /\ modem' = disconnect(modem)
    /\ cmCaller' = "menu"
    /\ pc' = "cm_choice"
    /\ UNCHANGED <<configVars, diag, wire, selected, leaseVars, scanVars, probe, ret, threadVars, connected>>

\* the finally block of run()
Run_Finally ==
    /\ pc = "finally"
    /\ modem' = disconnect(modem)
    /\ RestartIfNeeded(modemmanager_was_stopped)
    /\ pc' = "exit"
    /\ UNCHANGED <<configVars, diag, wire, selected, cmCaller, reconnects, mm_local, scanVars, probe, ret,
                   threadVars, connected>>

WorkerStep(s) == W_Open(s) \/ W_Handshake(s) \/ W_Send(s)

\* the thread of the running probe, and the abandoned threads
CurrentWorker == cur # 0 /\ WorkerStep(cur)
AbandonedWorker == \E s \in Abandoned : WorkerStep(s)

TP_IsAlive == IsAlive(MaxAbandoned)
TP_IsAliveForget == IsAlive(0)

\* what auto_detect_modem and the probes it calls do
Detect ==
    \/ AD_Begin
    \/ TP_Preflight
    \/ TP_Join
    \/ P1_Ret
    \/ P2_Check
    \/ P2_Ret
    \/ AD_Select
    \/ CurrentWorker

\* what run() does around it
Session ==
    \/ Run_Start
    \/ CM_Result
    \/ Run_Retry
    \/ CM_Choice
    \/ CM_AutoFail
    \/ CM_BadInput
    \/ MC_Open
    \/ MC_Handshake
    \/ CM_Test
    \/ Menu_Leave
    \/ Menu_Change
    \/ Run_Finally

(***************************************************************************)
(* Spec is the whole program; its abandoned threads are not followed.      *)
(* SpecScan and SpecDetect are one auto_detect_modem of a fresh tool       *)
(* (run() has called connect_modem and the operator chose auto-detection): *)
(* SpecScan is the main thread with the thread of the running probe,       *)
(* SpecDetect has the abandoned threads running on as well.                *)
(***************************************************************************)
Next == Session \/ Detect \/ TP_IsAliveForget

Spec == Init /\ [][Next]_vars

\* MODEMO_SKIP_PORTS names the first device
FirstSkipped == IF IS_LINUX THEN {Dev("ttyUSB", 1)} ELSE {Dev("COM", 1)}

\* one auto-detection, with MODEMO_SKIP_PORTS unset or naming one device
InitScan ==
    /\ IS_LINUX \in BOOLEAN
    /\ SKIP_PORTS \in {{}, FirstSkipped}
    /\ pc = "ad_begin"
    /\ cmCaller = "run1"
    /\ reconnects = 0
    /\ mmActive \in BOOLEAN
    /\ IS_LINUX \/ ~mmActive
    /\ mm_local = FALSE
    /\ modemmanager_was_stopped = FALSE
    /\ leaseHeld = FALSE
    /\ ports = <<>>
    /\ idx = 0
    /\ bidx = 0
    /\ phase = 0
    /\ working_ports = <<>>
    /\ probe = NoProbe
    /\ ret = NoResult
    /\ probeLog = <<>>
    /\ shown = NoShown
    /\ workers = [s \in Slots |-> NoWorker]
    /\ result_container = [s \in Slots |-> NoContainer]
    /\ cur = 0
    /\ modem = NoModem
    /\ connected = FALSE
    /\ wire = NoWire
    /\ selected = NoSelection
    /\ diag = NoDiag

\* one auto-detection with MODEMO_SKIP_PORTS naming one device
InitDetect == InitScan /\ SKIP_PORTS = FirstSkipped

NextDetect == Detect \/ TP_IsAlive \/ AbandonedWorker

SpecDetect == InitDetect /\ [][NextDetect]_vars

NextScan == Detect \/ TP_IsAliveForget

SpecScan == InitScan /\ [][NextScan]_vars

(***************************************************************************)
(* detect_serial_ports on its own: calls on hosts with any devices of the  *)
(* four classes, any of whose udevadm lookups may raise.                   *)
(***************************************************************************)
InitPorts ==
    /\ InitScan
    /\ SKIP_PORTS = {}
    /\ ~mmActive

\* a call of detect_serial_ports returns its list
DSP_Return ==
    /\ pc = "ad_begin"
    /\ \E present \in SUBSET (IF IS_LINUX THEN GlobPaths ELSE ComPorts) :
          /\ Cardinality(present) <= MaxPorts
          /\ \E udevFail \in SUBSET present :
                /\ IS_LINUX \/ udevFail = {}
                /\ ports' = detect_serial_ports(IS_LINUX, present, udevFail)
    /\ pc' = "dsp_ret"
    /\ UNCHANGED <<configVars, diag, wire, selected, cmCaller, reconnects, leaseVars, idx,
                   bidx, phase, working_ports, probeLog, shown, probe, ret,
                   threadVars, sessionVars>>

\* the caller is done with the list; the next call
DSP_Call ==
    /\ pc = "dsp_ret"
    /\ ports' = <<>>
    /\ pc' = "ad_begin"
    /\ UNCHANGED <<configVars, diag, wire, selected, cmCaller, reconnects, leaseVars, idx,
                   bidx, phase, working_ports, probeLog, shown, probe, ret,
                   threadVars, sessionVars>>

NextPorts == DSP_Return \/ DSP_Call

SpecPorts == InitPorts /\ [][NextPorts]_vars

(***************************************************************************)
(* ModemConnection on its own: a caller that connects, sends commands and  *)
(* disconnects in any order, with the serial line kept in wire.            *)
(***************************************************************************)
HsKind(ev) ==
    IF ev.fault THEN "fault"
    ELSE IF ev.lateFault THEN "lateFault"
    ELSE IF Answered(ev.r) THEN "answered"
    ELSE "silent"

\* the handles open after a step from connection b to connection c:
\* serial.Serial returned a new one, close() closed the one that was open
Handles(n, b, opened, c) ==
    n + (IF opened THEN 1 ELSE 0)
      - (IF (b.isopen \/ opened) /\ ~c.isopen THEN 1 ELSE 0)

\* the caller has the value connect() returned
ApiReturn(c) == IF c.cpc \in {"true", "false"} THEN ConnectEnd(c) ELSE c
ApiPc(c) == IF c.cpc \in {"true", "false"} THEN "api_idle" ELSE "api_connect"

\* connect(quick_test) is entered
API_Connect ==
    /\ pc = "api_idle"
    /\ ~modem.isopen
    /\ \E quick_test \in BOOLEAN : modem' = ConnectBegin(modem, quick_test)
    /\ pc' = "api_connect"
    /\ wire' = [NoWire EXCEPT !.op = "connect"]
    /\ UNCHANGED <<configVars, diag, selected, leaseVars, scanVars, threadVars, cmCaller,
                   reconnects, probe, ret, connected>>

\* serial.Serial(...) for the current setting
API_Open ==
    /\ pc = "api_connect"
    /\ modem.cpc = "open"
    /\ \E ev \in OpenEvents :
          LET c == ConnectOpen(modem, ev)
          IN /\ modem' = ApiReturn(c)
             /\ pc' = ApiPc(c)
             /\ wire' = [wire EXCEPT !.op = "open", !.ev = ev, !.result = c.cpc,
                                     !.handles = Handles(wire.handles, modem,
                                                         ev = "ok", c)]
    /\ UNCHANGED <<configVars, diag, selected, leaseVars, scanVars, threadVars, cmCaller,
                   reconnects, probe, ret, connected>>

\* one handshake attempt: AT is written and the answer read
API_Handshake ==
    /\ pc = "api_connect"
    /\ modem.cpc = "hs"
    /\ \E ev \in HandshakeEvents :
          LET c == ConnectHandshake(modem, ev)
          IN /\ modem' = ApiReturn(c)
             /\ pc' = ApiPc(c)
             /\ wire' = [wire EXCEPT !.op = "handshake",
                                     !.writes[modem.si] = @ + 1,
                                     !.ev = HsKind(ev), !.r = ev.r,
                                     !.result = c.cpc,
                                     !.handles = Handles(wire.handles, modem,
                                                         FALSE, c),
                                     !.setting = rtscts_settings(modem.quick)[modem.si]]
    /\ UNCHANGED <<configVars, diag, selected, leaseVars, scanVars, threadVars, cmCaller,
                   reconnects, probe, ret, connected>>

\* the operation the caller made before its command
Before(w) == IF w.op \in {"send", "drain"} THEN w.prev ELSE w.op

\* send_at_command up to the drain loop: the check of the handle, the buffer
\* reset, the write and the wait
API_Send ==
    /\ pc = "api_idle"
    /\ \E ev \in {e \in SendEvents : e.r = {}} :
          IF NoConnection(modem) \/ ev.fault
          THEN /\ wire' = [wire EXCEPT !.op = "send", !.prev = Before(wire),
                                       !.r = {},
                                       !.text = IF NoConnection(modem) THEN ""
                                                ELSE ev.text,
                                       !.resp = send_at_command(modem, ev)]
               /\ pc' = pc
          ELSE /\ wire' = [wire EXCEPT !.op = "drain", !.prev = Before(wire),
                                       !.r = {}, !.text = "",
                                       !.resp = NoResponse]
               /\ pc' = "api_drain"
    /\ UNCHANGED <<configVars, diag, selected, leaseVars, scanVars, threadVars, cmCaller,
                   reconnects, probe, ret, modem, connected>>

\* one test of in_waiting in the drain loop: bytes are waiting and are read
\* (or the read raises), and the loop tests again
API_DrainMore ==
    /\ pc = "api_drain"
    /\ \E ev \in SendEvents :
          IF ev.fault
          THEN /\ wire' = [wire EXCEPT !.op = "send", !.text = ev.text,
                                       !.resp = send_at_command(modem, ev)]
               /\ pc' = "api_idle"
          ELSE /\ wire' = [wire EXCEPT !.r = @ \cup ev.r, !.tick = ~@]
               /\ pc' = pc
    /\ UNCHANGED <<configVars, diag, selected, leaseVars, scanVars, threadVars, cmCaller,
                   reconnects, probe, ret, modem, connected>>

\* in_waiting is zero: the loop ends and the ATResponse is built
API_DrainEnd ==
    /\ pc = "api_drain"
    /\ wire' = [wire EXCEPT !.op = "send",
                   !.resp = send_at_command(modem,
                               [r |-> wire.r, fault |-> FALSE, text |-> ""])]
    /\ pc' = "api_idle"
    /\ UNCHANGED <<configVars, diag, selected, leaseVars, scanVars, threadVars, cmCaller,
                   reconnects, probe, ret, modem, connected>>

API_Disconnect ==
    /\ pc = "api_idle"
    /\ modem.isopen
    /\ modem' = disconnect(modem)
    /\ wire' = [wire EXCEPT !.op = "disconnect",
                            !.handles = Handles(wire.handles, modem, FALSE,
                                                disconnect(modem))]
    /\ UNCHANGED <<configVars, diag, selected, leaseVars, scanVars, threadVars, cmCaller,
                   reconnects, probe, ret, pc, connected>>

InitConn ==
    /\ IS_LINUX \in BOOLEAN
    /\ SKIP_PORTS = FirstSkipped
    /\ pc = "api_idle"
    /\ cmCaller = "run1"
    /\ reconnects = 0
    /\ mmActive = FALSE
    /\ mm_local = FALSE
    /\ modemmanager_was_stopped = FALSE
    /\ leaseHeld = FALSE
    /\ ports = <<>>
    /\ idx = 0
    /\ bidx = 0
    /\ phase = 0
    /\ working_ports = <<>>
    /\ probe = NoProbe
    /\ ret = NoResult
    /\ probeLog = <<>>
    /\ shown = NoShown
    /\ workers = [s \in Slots |-> NoWorker]
    /\ result_container = [s \in Slots |-> NoContainer]
    /\ cur = 0
    /\ modem \in {ModemConnection(p) : p \in Paths}
    /\ connected = FALSE
    /\ wire = NoWire
    /\ selected = NoSelection
    /\ diag = NoDiag

NextConn ==
    \/ API_Connect
    \/ API_Open
    \/ API_Handshake
    \/ API_Send
    \/ API_DrainMore
    \/ API_DrainEnd
    \/ API_Disconnect

SpecConn == InitConn /\ [][NextConn]_vars

\* the drain loop is a loop of one thread: it runs as long as it can
FairConn == SpecConn /\ WF_vars(API_DrainMore \/ API_DrainEnd)

(***************************************************************************)
(* send_at_command on its own with what it decodes: a caller that sends    *)
(* the commands of the diagnostic run over an open connection and gets the *)
(* response lines of the modem.                                            *)
(***************************************************************************)
MaxFields == 5
MaxLines == 3

\* the sequences of at most n elements of S
SeqsUpTo(S, n) == UNION {[1..k -> S] : k \in 0..n}

\* the tag of the lines that answer the command
TagOf(command) == Family(command) \o ":"

\* the modem echoes the command, answers with the lines and ends with OK
Answer(lines) == <<EchoLine>> \o lines \o <<OKLine>>

\* the call result = self.modem.send_at_command(cmd) and its inputs
Send(command, isopen, fault, response) ==
    /\ diag' = [command |-> command, response |-> response, isopen |-> isopen,
                fault |-> fault,
                resp |-> SendAT(command, [isopen |-> isopen], fault, response)]
    /\ pc' = "diag_sent"
    /\ UNCHANGED <<configVars, wire, selected, cmCaller, reconnects, leaseVars,
                   scanVars, probe, ret, threadVars, sessionVars>>

\* the fields of a registration line: numbers, quoted upper-case hexadecimal
\* strings and a quoted lower-case one
RegFields == {Num(2), Num(5), Num(7), Hex("1A2B"), Hex("3C4D"), Quoted("1a2b")}

Send_Registration ==
    /\ pc = "diag_idle"
    /\ \E command \in {"AT+CREG?", "AT+CGREG?", "AT+CEREG?"} :
          \E f \in SeqsUpTo(RegFields, MaxFields) :
              Send(command, TRUE, "", Answer(<<Line(TagOf(command), f)>>))

MaxRssi == 33
MaxBer == 13

\* +CSQ: <rssi>,<ber> with every value up to the bounds and 99 (not known)
Send_CSQ ==
    /\ pc = "diag_idle"
    /\ \E rssi \in (0..MaxRssi) \cup {99} : \E ber \in (0..MaxBer) \cup {99} :
          Send("AT+CSQ", TRUE, "", Answer(<<Line("+CSQ:", <<Num(rssi), Num(ber)>>)>>))

\* +CGDCONT: lines: three with the fields of a context (without an address,
\* with one, with an empty APN and address), one that ends after the PDP
\* type, one whose fourth field is a number, one with another tag
CgdcontLines ==
    {Line("+CGDCONT:", <<Num(1), Quoted("IP"), Quoted("internet")>>),
     Line("+CGDCONT:", <<Num(2), Quoted("IPV4V6"), Quoted("ims"), Quoted("10.0.0.1")>>),
     Line("+CGDCONT:", <<Num(3), Quoted("IP"), Quoted(""), Quoted("")>>),
     Line("+CGDCONT:", <<Num(4), Quoted("IP")>>),
     Line("+CGDCONT:", <<Num(5), Quoted("IP"), Quoted("iot"), Num(0)>>),
     Line("+CGPADDR:", <<Num(1), Quoted("IP"), Quoted("internet")>>)}

Send_CGDCONT ==
    /\ pc = "diag_idle"
    /\ \E lines \in SeqsUpTo(CgdcontLines, MaxLines) :
          Send("AT+CGDCONT?", TRUE, "", Answer(lines))

\* a line of the family with all the fields of its grammar
FullFields(family) ==
    CASE family = "+COPS" -> <<Num(0), Num(2), Quoted("Operator"), Num(7)>>
      [] family \in {"+CREG", "+CGREG", "+CEREG"} ->
            <<Num(2), Num(5), Hex("1A2B"), Hex("3C4D"), Num(7)>>
      [] family = "+CSQ" -> <<Num(15), Num(99)>>
      [] family = "+CGDCONT" ->
            <<Num(1), Quoted("IP"), Quoted("internet"), Quoted("10.0.0.1")>>
      [] family = "+CPIN" -> <<Word("READY")>>
      [] family = "+QENG" ->
            <<Quoted("servingcell"), Quoted("NOCONN"), Quoted("LTE"), Quoted("FDD"),
              Num(310), Num(410), Word("1A2B3C"), Num(123), Num(5110), Num(12),
              Num(5), Num(5), Word("1A2B"), Word("-95"), Word("-10"), Word("-65"),
              Num(15)>>
      [] family = "+QNWINFO" ->
            <<Quoted("FDD LTE"), Quoted("310410"), Quoted("LTE BAND 12"), Num(5110)>>
      [] family = "+QSPN" ->
            <<Quoted("Operator"), Quoted("Oper"), Quoted(""), Num(0), Quoted("310410")>>
      [] OTHER -> <<>>

\* the families answered by lines of fields
Fielded(family) == FullFields(family) # <<>>

\* the answers to a command that stop early: for a family of fields the line
\* cut after each number of fields (the whole line included), for +QENG also
\* with another first field; for the other commands no line or a line of text
ShortAnswers(command) ==
    LET family == Family(command)
        full == FullFields(family)
        cuts == {SubSeq(full, 1, k) : k \in 0..Len(full)}
    IN IF Fielded(family)
       THEN {<<Line(TagOf(command), f)>> : f \in cuts}
            \cup (IF family = "+QENG"
                  THEN {<<Line(TagOf(command),
                               [f EXCEPT ![1] = Quoted("neighbourcell")])>> :
                           f \in cuts \ {<<>>}}
                  ELSE {})
       ELSE {<<>>, <<TextLine(<<"8", "9", "0", "1">>)>>}

Send_Short ==
    /\ pc = "diag_idle"
    /\ \E command \in Commands : \E lines \in ShortAnswers(command) :
          Send(command, TRUE, "", Answer(lines))

\* manufacturer texts: the names as the modems write them and in capitals,
\* alone, followed by more text, and two of them in one text
Sierra == <<"S", "i", "e", "r", "r", "a">>
ublox == <<"u", "b", "l", "o", "x">>
Acme == <<"A", "c", "m", "e">>
Corp == <<" ", "C", "o", "r", "p">>
WirelessSolutions == <<" ", "W", "i", "r", "e", "l", "e", "s", "s", " ", "S", "o", "l", "u", "t", "i", "o", "n", "s">>
Names == {Quectel, Sierra, u_blox, ublox, Telit, SimCom, Acme}
Written == Names \cup {Upper(name) : name \in Names}
Manufacturers ==
    Written
        \cup {name \o WirelessSolutions : name \in Written}
        \cup {Acme \o Corp}
        \cup {a \o <<" ">> \o b : a \in Written, b \in Written}

\* the +CME ERROR codes answered
CmeCodes == {3, 10, 100}

\* what comes back for AT+CGMI: whether the handle is open, the text of an
\* I/O fault ("" is none) and the response: a manufacturer text and OK, a
\* bare ERROR, a +CME ERROR line, nothing after the echo, nothing at all
ManufacturerAnswers ==
    {[isopen |-> TRUE, fault |-> "", response |-> r] :
        r \in {Answer(<<TextLine(m)>>) : m \in Manufacturers}
              \cup {<<EchoLine, ERRORLine>>, <<EchoLine>>, <<>>}
              \cup {<<EchoLine, Line("+CME ERROR:", <<Num(n)>>)>> : n \in CmeCodes}}
    \cup {[isopen |-> TRUE, fault |-> text, response |-> <<>>] : text \in FaultTexts}
    \cup {[isopen |-> FALSE, fault |-> "", response |-> <<>>]}

\* run_full_diagnostic up to the list of its tests: detect_modem_vendor sends
\* AT+CGMI, then the tests of the vendor are added to the standard ones
RFD_Detect ==
    /\ pc = "diag_idle"
    /\ \E a \in ManufacturerAnswers :
          LET manu_result == SendAT("AT+CGMI", [isopen |-> a.isopen], a.fault, a.response)
          IN diag' = [command |-> "AT+CGMI", response |-> a.response,
                      isopen |-> a.isopen, fault |-> a.fault, resp |-> manu_result,
                      modem_vendor |-> detect_modem_vendor(manu_result),
                      tests |-> Tests(detect_modem_vendor(manu_result))]
    /\ pc' = "rfd_tests"
    /\ UNCHANGED <<configVars, wire, selected, cmCaller, reconnects, leaseVars,
                   scanVars, probe, ret, threadVars, sessionVars>>

\* the run is over; the next one starts with a new DiagnosticTests
RFD_Return ==
    /\ pc = "rfd_tests"
    /\ diag' = NoDiag
    /\ pc' = "diag_idle"
    /\ UNCHANGED <<configVars, wire, selected, cmCaller, reconnects, leaseVars,
                   scanVars, probe, ret, threadVars, sessionVars>>

\* the caller is done with the response; the next command
Send_Next ==
    /\ pc = "diag_sent"
    /\ diag' = NoDiag
    /\ pc' = "diag_idle"
    /\ UNCHANGED <<configVars, wire, selected, cmCaller, reconnects, leaseVars,
                   scanVars, probe, ret, threadVars, sessionVars>>

InitDecode ==
    /\ IS_LINUX = TRUE
    /\ SKIP_PORTS = {}
    /\ pc = "diag_idle"
    /\ cmCaller = "run1"
    /\ reconnects = 0
    /\ mmActive = FALSE
    /\ mm_local = FALSE
    /\ modemmanager_was_stopped = FALSE
    /\ leaseHeld = FALSE
    /\ ports = <<>>
    /\ idx = 0
    /\ bidx = 0
    /\ phase = 0
    /\ working_ports = <<>>
    /\ probe = NoProbe
    /\ ret = NoResult
    /\ probeLog = <<>>
    /\ shown = NoShown
    /\ workers = [s \in Slots |-> NoWorker]
    /\ result_container = [s \in Slots |-> NoContainer]
    /\ cur = 0
    /\ modem = [ModemConnection(CHOOSE p \in Paths : TRUE) EXCEPT !.isopen = TRUE]
    /\ connected = TRUE
    /\ wire = NoWire
    /\ selected = NoSelection
    /\ diag = NoDiag

NextDecode ==
    \/ Send_Registration
    \/ Send_CSQ
    \/ Send_CGDCONT
    \/ Send_Short
    \/ RFD_Detect
    \/ RFD_Return
    \/ Send_Next

SpecDecode == InitDecode /\ [][NextDecode]_vars

(***************************************************************************)
(* Properties of the scan.                                                 *)
(***************************************************************************)
\* the probes of Phase 1 (quick mode) and of Phase 2 (full mode), in order
QuickLog == SelectSeq(probeLog, LAMBDA e : e.quick_test)
FullLog == SelectSeq(probeLog, LAMBDA e : ~e.quick_test)
PortIndex(p) == CHOOSE k \in 1..Len(ports) : ports[k].path = p
BaudIndex(b) == CHOOSE k \in 1..Len(fallback_baudrates) : fallback_baudrates[k] = b
FallbackBauds == {fallback_baudrates[k] : k \in 1..Len(fallback_baudrates)}
Phase1Found == \E i \in 1..Len(probeLog) : probeLog[i].quick_test /\ probeLog[i].ok

\* C1: once a quick-mode probe at the primary baud has succeeded, no later
\* probe at the primary baud is made or under way: Phase 1 stops at its first
\* success.
C1_Phase1StopsAtFirstSuccess ==
    \A i \in 1..Len(probeLog) :
        (probeLog[i].quick_test /\ probeLog[i].baudrate = primary_baudrate /\ probeLog[i].ok)
        => /\ \A j \in (i + 1)..Len(probeLog) : probeLog[j].baudrate # primary_baudrate
           /\ probe.baudrate # primary_baudrate

\* a Phase 1 success on a candidate that is not the last one
C1_Witness ==
    /\ pc = "ad_select"
    /\ \E i \in 1..Len(probeLog) :
          probeLog[i].quick_test /\ probeLog[i].ok /\ i < Len(ports)

\* C5: Phase 2 runs exactly when Phase 1 found no working pair: after a
\* Phase 1 success no probe is made in full mode or at a fallback baud, and
\* without one the selection is reached only after Phase 2 has probed.
C5_Phase2IffPhase1FoundNone ==
    /\ Phase1Found =>
          /\ FullLog = <<>>
          /\ phase # 2
          /\ probe.baudrate \notin FallbackBauds
          /\ \A i \in 1..Len(probeLog) : probeLog[i].baudrate \notin FallbackBauds
    /\ (pc = "ad_select" /\ ~Phase1Found) =>
          /\ FullLog # <<>>
          /\ \A i \in 1..Len(FullLog) : FullLog[i].baudrate \in FallbackBauds

\* the selection is reached with the pair Phase 1 found
C5_Witness ==
    /\ pc = "ad_select"
    /\ Phase1Found
    /\ Len(working_ports) = 1
    /\ working_ports[1].baudrate = primary_baudrate

\* C6: the Phase 2 probes are the candidates in order, each at the fallback
\* bauds 9600, 460800, 57600, 19200 in this order up to its first success;
\* after a success or the last baud the next candidate follows at the first
\* baud; no candidate gives two working pairs, and the scan ends with the
\* last candidate.
C6_Phase2BaudOrder ==
    LET L == FullLog
        n == Len(fallback_baudrates)
    IN /\ fallback_baudrates = <<9600, 460800, 57600, 19200>>
       /\ L # <<>> => (L[1].port = ports[1].path /\ L[1].baudrate = fallback_baudrates[1])
       /\ \A k \in 1..(Len(L) - 1) :
             IF L[k].ok \/ L[k].baudrate = fallback_baudrates[n]
             THEN /\ PortIndex(L[k].port) < Len(ports)
                  /\ L[k + 1].port = ports[PortIndex(L[k].port) + 1].path
                  /\ L[k + 1].baudrate = fallback_baudrates[1]
             ELSE /\ L[k + 1].port = L[k].port
                  /\ L[k + 1].baudrate = fallback_baudrates[BaudIndex(L[k].baudrate) + 1]
       /\ (pc = "ad_select" /\ L # <<>>) =>
             /\ L[Len(L)].port = ports[Len(ports)].path
             /\ L[Len(L)].ok \/ L[Len(L)].baudrate = fallback_baudrates[n]
       /\ \A i, j \in 1..Len(working_ports) :
             i # j => working_ports[i].port # working_ports[j].port
       /\ L # <<>> => Len(working_ports) = Len(SelectSeq(L, LAMBDA e : e.ok))

\* the first candidate succeeds at its second fallback baud and the scan
\* goes on with the second candidate at the first fallback baud
C6_Witness ==
    /\ pc = "ad_select"
    /\ Len(ports) >= 2
    /\ Len(FullLog) >= 3
    /\ FullLog[2].port = ports[1].path
    /\ FullLog[2].ok
    /\ FullLog[3].port = ports[2].path
    /\ FullLog[3].baudrate = fallback_baudrates[1]

\* C7: in each phase the candidates are probed in the enumerated order and a
\* failed probe does not end the scan: the k-th probe of Phase 1 is of the
\* k-th candidate, only the last one can be a success, and Phase 1 ends with a
\* success or with all candidates probed; Phase 2 never goes back to an
\* earlier candidate and ends with every candidate probed.
C7_OrderAndNoAbort ==
    LET Q == QuickLog
        L == FullLog
        phase1Over == pc \in {"p2_check", "ad_select"} \/ phase = 2
    IN /\ Len(Q) <= Len(ports)
       /\ \A k \in 1..Len(Q) : Q[k].port = ports[k].path
       /\ \A k \in 1..(Len(Q) - 1) : ~Q[k].ok
       /\ phase1Over => (Q # <<>> /\ (Q[Len(Q)].ok \/ Len(Q) = Len(ports)))
       /\ \A k \in 1..(Len(L) - 1) : PortIndex(L[k].port) <= PortIndex(L[k + 1].port)
       /\ (pc = "ad_select" /\ L # <<>>) =>
             \A c \in 1..Len(ports) : \E k \in 1..Len(L) : L[k].port = ports[c].path

\* the first candidate failed and the second candidate is being probed
C7_Witness ==
    /\ phase = 1
    /\ pc = "tp_join"
    /\ idx = 2
    /\ Len(probeLog) = 1
    /\ ~probeLog[1].ok

(***************************************************************************)
(* The ModemManager lease.                                                 *)
(***************************************************************************)
\* C2: when run() has returned, a ModemManager that auto_detect_modem stopped
\* has had ModemManagerHelper.restart called for it, on every exit path.
C2_RestartOnEveryExit == pc = "exit" => ~leaseHeld

(***************************************************************************)
(* The probe and its worker.                                               *)
(***************************************************************************)
\* the main thread is scheduled: the checks, the join with its timeout and
\* the is_alive test go on; no worker is assumed to go on
FairDetect ==
    SpecDetect /\ WF_vars(TP_Preflight) /\ WF_vars(TP_Join) /\ WF_vars(TP_IsAlive)

\* C3: a called test_port_for_modem returns, whatever its worker does; when
\* the worker is still running after the join, the result is the Timeout
\* failure of the mode (1.0 s quick, 5.0 s full) and the worker is left as it
\* is, neither waited for nor ended.
C3_ProbeAlwaysReturns ==
    /\ (pc = "tp_pre") ~> (pc = "tp_ret")
    /\ [][(pc = "tp_alive" /\ pc' # pc /\ Live(cur)) =>
             /\ pc' = "tp_ret"
             /\ ret' = Result(FALSE, ErrTimeout(probe.quick_test))
             /\ ret'.error.errno = (IF probe.quick_test THEN 10 ELSE 50)
             /\ Cardinality(Abandoned) < MaxAbandoned => workers'[cur] = workers[cur]
             /\ \A s \in Abandoned : workers'[s] = workers[s]]_vars

\* a quick probe has returned Timeout and its worker is still in its open call
C3_Witness ==
    /\ pc = "tp_ret"
    /\ ret = Result(FALSE, ErrTimeout(TRUE))
    /\ \E s \in Abandoned : workers[s].conn.cpc = "open" /\ workers[s].conn.port = probe.port

Denied == probe.port \in SKIP_PORTS
Missing == ~probe.env.exists
Unreadable == probe.env.exists /\ ~probe.env.access
Rejected == pc = "tp_ret" /\ ~ret.ok /\ ~probe.started /\ ~probe.io /\ cur = 0

\* C8 as stated: a path on the deny-list, missing, or failing the permission
\* check is rejected without a worker and without opening the device.
C8_RejectWithoutIO ==
    (probe.checked /\ (Denied \/ Missing \/ Unreadable)) => Rejected

\* C8: a path on the deny-list is rejected without a worker and without
\* opening the device on every platform; a missing path and one failing the
\* permission check are rejected so on Linux, where the pre-flight checks run.
C8_RejectWithoutIO_Linux ==
    /\ (probe.checked /\ Denied) => (Rejected /\ ret.error = ErrSkip)
    /\ (probe.checked /\ IS_LINUX /\ ~Denied /\ Missing) =>
          (Rejected /\ ret.error = ErrNotFound)
    /\ (probe.checked /\ IS_LINUX /\ ~Denied /\ Unreadable) =>
          (Rejected /\ ret.error = ErrPermission)

\* a path without read/write permission is rejected on Linux
C8_Witness ==
    /\ IS_LINUX
    /\ probe.checked
    /\ ~Denied
    /\ Unreadable
    /\ ret = Result(FALSE, ErrPermission)

\* C9: when the lock file exists or the non-blocking open raises an OSError,
\* the probe returns a failure with no worker started; the reason is the lock
\* message, or carries the errno and the text of the OSError as raised.
C9_PreProbeFailure ==
    (/\ probe.checked
     /\ IS_LINUX
     /\ ~Denied
     /\ probe.env.exists
     /\ probe.env.access
     /\ probe.env.lock \/ probe.env.openErr # NoOSError)
    => /\ pc = "tp_ret"
       /\ ~ret.ok
       /\ ~probe.started
       /\ cur = 0
       /\ IF probe.env.lock
          THEN ret.error = ErrLocked /\ ~probe.io
          ELSE /\ ret.error.msg = "Port unavailable"
               /\ ret.error.errno = probe.env.openErr.errno
               /\ ret.error.strerror = probe.env.openErr.strerror

\* the open raised EBUSY and the probe returned it
C9_Witness ==
    /\ pc = "tp_ret"
    /\ probe.checked
    /\ ~probe.env.lock
    /\ probe.env.openErr = EBUSY
    /\ ret.error.errno = 16
    /\ ret.error.strerror = "Device or resource busy"
    /\ ~probe.started

\* the failures of the taxonomy, as the probe returns them
EightFailures ==
    {ErrSkip, ErrNotFound, ErrPermission, ErrLocked, ErrTimeout(TRUE), ErrTimeout(FALSE),
     ErrNoAT}
       \cup {ErrUnavailable(o) : o \in {ENOENT, EACCES, EBUSY, EIO}}

\* C10 as stated: a returned result is one of Skipped, NotFound,
\* PermissionDenied, Locked, KernelUnavailable(errno), Timeout, NoResponse, or
\* a Success that carries the flow-control setting that worked.
C10_EightOutcomes ==
    pc = "tp_ret" =>
       IF ret.ok THEN ret.error.msg = probe.rtscts
       ELSE ret.error \in EightFailures

\* C10: a returned result is a failure with one of the reasons Skipped,
\* NotFound, PermissionDenied, Locked, KernelUnavailable(errno, text),
\* Timeout of the mode, "No AT response", "Cannot open port" or the text of
\* an exception of the worker, or it is the success (True, None), which
\* carries no flow-control setting although the worker negotiated one.
C10_Outcomes ==
    pc = "tp_ret" =>
       IF ret.ok
       THEN ret.error = NoError /\ probe.rtscts \in {"False", "True"}
       ELSE ret.error \in
               (EightFailures \ {ErrTimeout(~probe.quick_test)})
                  \cup {ErrCannotOpen, ErrException}

\* a full-mode probe succeeded with hardware flow control
C10_Witness ==
    /\ pc = "tp_ret"
    /\ ret = Result(TRUE, NoError)
    /\ probe.rtscts = "True"

(***************************************************************************)
(* What the scan keeps of a probe.                                         *)
(***************************************************************************)
\* C11: the outcome of every probe of Phase 1 and Phase 2 is recorded once
\* with its reason: when the scan has handled a returned probe, a success is
\* one new working pair, and a failure is shown with its reason.
C11_EveryOutcomeRecorded ==
    [][(pc = "tp_ret" /\ pc' # pc) =>
          IF ret.ok
          THEN /\ Len(working_ports') = Len(working_ports) + 1
               /\ working_ports'[Len(working_ports')].port = probe.port
               /\ working_ports'[Len(working_ports')].baudrate = probe.baudrate
          ELSE \/ shown'.error = ret.error
               \/ HasTimeout(ret.error) /\ shown'.kind = "Timeout (skipping)"]_vars

\* a handshake attempt of connect() is made in this step
HandshakeStep == pc = "api_connect" /\ modem.cpc = "hs" /\ wire'.writes # wire.writes

FinishedInTime == pc = "tp_ret" /\ probe.started /\ ~HasTimeout(ret.error)

\* C13 as stated: a probe whose worker finished in time reports Success
\* exactly when the handshake of connect() was answered with OK or with an
\* echo
C13_SuccessIffHandshake ==
    FinishedInTime => (ret.ok <=> probe.hs \in {"OK", "echo"})

\* C13: a probe whose worker finished in time reports Success exactly when
\* the handshake of connect() was answered (with OK or with an echo alone),
\* the AT command sent after it was answered with OK and without ERROR, and
\* disconnect() returned
C13_SuccessIffHandshakeAndAT ==
    FinishedInTime =>
        (ret.ok <=> /\ probe.hs \in {"OK", "echo"}
                    /\ probe.at = "OK"
                    /\ probe.closed)

\* a probe succeeded whose handshake was answered with the echo alone
C13_Witness == FinishedInTime /\ ret.ok /\ probe.hs = "echo"

\* send_at_command has returned to the caller of the connection
Sent == pc = "api_idle" /\ wire.op = "send"

\* C14: a command sent on an open connection that met no I/O fault succeeds
\* exactly when the drained text contains OK and does not contain ERROR
C14_SuccessIffOkNoError ==
    (Sent /\ modem.isopen /\ wire.text = "") =>
        (wire.resp.success <=> ("OK" \in wire.r /\ "ERROR" \notin wire.r))

\* a command failed whose drained text holds both OK and ERROR
C14_Witness ==
    /\ Sent /\ modem.isopen /\ wire.text = ""
    /\ {"OK", "ERROR"} \subseteq wire.r /\ ~wire.resp.success

\* C15: a command sent while no connection is open (never connected, after a
\* failed connect, after disconnect) returns success = false with the reason
\* "No connection", and nothing is written to or read from a handle
C15_NoConnection ==
    /\ (Sent /\ ~modem.isopen) =>
          /\ wire.resp = ATResponse(FALSE, "No connection", FALSE)
          /\ wire.r = {} /\ wire.text = ""
    /\ pc = "api_drain" => modem.isopen

\* a command was sent after disconnect()
C15_Witness ==
    /\ Sent /\ ~modem.isopen /\ wire.prev = "disconnect"
    /\ wire.resp.error = "No connection"

\* C16: an I/O fault met while the buffer is cleared, the command written or
\* the response read ends the command with success = false and the text of
\* the fault in the error field
C16_FaultCaptured ==
    (Sent /\ wire.text # "") =>
        /\ wire.text \in FaultTexts
        /\ wire.resp = ATResponse(FALSE, wire.text, TRUE)

\* the read raised after part of the response had been drained
C16_Witness ==
    /\ Sent /\ wire.text = "Input/output error" /\ "OK" \in wire.r
    /\ wire.resp.error = "Input/output error"

\* C17: the drain loop of send_at_command ends: a command that has started
\* to collect its response returns, also when the device keeps delivering
C17_DrainEnds == (pc = "api_drain") ~> (pc = "api_idle")

\* auto_detect_modem has returned
Returned == pc = "cm_result"

\* the indexes of the working entries on ttyUSB<k>
OnUSB(k) ==
    {i \in 1..Len(selected.working) :
        selected.working[i].port.cls = "ttyUSB" /\ selected.working[i].port.num = k}
First(S) == CHOOSE i \in S : \A j \in S : i <= j

\* C18: auto_detect_modem returns None exactly when no working pair was
\* found; the only working pair without asking; and among several the pair
\* of the entry the operator types, the empty line standing for the default,
\* which is the first working port on ttyUSB2, else the first on ttyUSB1,
\* else the first entry
C18_Selection ==
    Returned =>
        LET working == selected.working
            pair(i) == <<working[i].port, working[i].baudrate>>
            returned == <<selected.port, selected.baudrate>>
        IN /\ selected.port = NoPath <=> working = <<>>
           /\ Len(working) = 1 => (~selected.asked /\ returned = pair(1))
           /\ Len(working) > 1 =>
                 /\ selected.asked
                 /\ selected.input \in 0..Len(working)
                 /\ selected.input # 0 => returned = pair(selected.input)
                 /\ selected.input = 0 => returned = pair(selected.default)
                 /\ selected.default =
                       IF OnUSB(2) # {} THEN First(OnUSB(2))
                       ELSE IF OnUSB(1) # {} THEN First(OnUSB(1))
                       ELSE 1

\* the operator typed an entry that is not the recommended one, and got it
C18_Witness ==
    /\ Returned /\ selected.asked
    /\ OnUSB(2) # {} /\ selected.default = 2
    /\ selected.input = 1
    /\ selected.port = selected.working[1].port
    /\ selected.port # selected.working[2].port

\* detect_serial_ports has returned its list
Listed == pc = "dsp_ret"

\* the rank of the device classes: USB-serial, CDC-ACM, hardware UART, serial
ClassOrder(c) ==
    CASE c = "ttyUSB" -> 1
      [] c = "ttyACM" -> 2
      [] c = "ttyAMA" -> 3
      [] c = "ttyS" -> 4

\* C19: on Linux the list has every ttyUSB device before every ttyACM device,
\* those before the ttyAMA devices, those before the ttyS devices; among the
\* ttyUSB devices a higher number comes first; and the list is sorted by
\* priority ascending, then path ascending
C19_LinuxOrder ==
    (Listed /\ IS_LINUX) =>
        \A i, j \in 1..Len(ports) :
            i < j =>
               /\ ClassOrder(ports[i].path.cls) <= ClassOrder(ports[j].path.cls)
               /\ (ports[i].path.cls = "ttyUSB" /\ ports[j].path.cls = "ttyUSB")
                     => ports[i].path.num > ports[j].path.num
               /\ PortKeyLess(ports[i], ports[j])

\* C20: on Windows the list has the COM ports by ascending number
C20_WindowsOrder ==
    (Listed /\ ~IS_LINUX) =>
        \A i, j \in 1..Len(ports) :
            i < j => ports[i].path.num < ports[j].path.num

\* C27: between the menu operations, connected is true only while the handle
\* of the current ModemConnection is open
C27_ConnectedImpliesOpen ==
    (pc = "menu" /\ connected) => modem.isopen

\* C28: no two threads hold the same device path open at the same time: an
\* abandoned thread's handle is never open while the thread of a later probe
\* has the same path open
C28_NoSharedDevice ==
    \A s, t \in Slots :
        (s # t /\ workers[s].conn.isopen /\ workers[t].conn.isopen)
            => workers[s].conn.port # workers[t].conn.port

\* connect() has just returned to the caller of the connection
ConnectReturned == pc = "api_idle" /\ wire.op \in {"open", "handshake"}

\* C29: connect() returns True only with its one handle open and rtscts the
\* setting of the handshake that was answered; when it returns False no
\* handle of the connection is open, whichever step failed
C29_HandleHygiene ==
    ConnectReturned =>
        IF wire.result = "true"
        THEN /\ modem.isopen /\ wire.handles = 1
             /\ wire.ev = "answered"
             /\ modem.rtscts = wire.setting
        ELSE /\ wire.result = "false"
             /\ ~modem.isopen /\ wire.handles = 0

\* connect() returned False after a handle had been opened for each setting
\* and the last handshake write raised
C29_Witness ==
    /\ ConnectReturned /\ wire.result = "false"
    /\ wire.writes = <<3, 3>> /\ wire.ev = "fault"
    /\ ~modem.isopen

\* C30: the class and the priority of a Linux candidate depend only on its
\* path: every entry of the list carries the type and priority that its path
\* gets when the udevadm lookup returns, whether or not the lookup raised,
\* and so the list is in the order of a host whose lookups all return
C30_RankByPathOnly ==
    (Listed /\ IS_LINUX) =>
        /\ \A i \in 1..Len(ports) :
              /\ ports[i].type = LinuxPortInfo(ports[i].path, TRUE).type
              /\ ports[i].priority = LinuxPortInfo(ports[i].path, TRUE).priority
        /\ [i \in 1..Len(ports) |-> ports[i].path] =
              LET all == detect_serial_ports(TRUE, {ports[i].path : i \in 1..Len(ports)}, {})
              IN [i \in 1..Len(all) |-> all[i].path]

\* the command sent has been answered and decoded
Decoded1 == pc = "diag_sent"
\* the one line of the answer between the echo and OK, and its fields
TheLine == diag.response[2]
Has(key) == key \in DOMAIN diag.resp.parsed_data
Got(key) == diag.resp.parsed_data[key]

\* the fields are of the form <n>[,<stat>][,"<lac>","<ci>"][,<AcT>]; pair is
\* the position of the quoted pair, 0 when there is none
RegForm(f, hasStat, pair, hasAct) ==
    LET stat == IF hasStat THEN 1 ELSE 0
        lacci == IF pair > 0 THEN 2 ELSE 0
        act == IF hasAct THEN 1 ELSE 0
    IN /\ Len(f) = 1 + stat + lacci + act
       /\ IsNum(f, 1)
       /\ hasStat => IsNum(f, 2)
       /\ pair = (IF lacci = 0 THEN 0 ELSE 2 + stat)
       /\ pair > 0 => (IsQuoted(f, pair) /\ IsQuoted(f, pair + 1))
       /\ hasAct => IsNum(f, Len(f))
       \* a second number is <stat>, as the grammar is read from the left
       /\ (~hasStat /\ hasAct) => pair > 0

\* C21: for a registration line of the form <n>[,<stat>][,"<lac>","<ci>"][,<AcT>]
\* the decoded status is <stat> when it is present and <n> when it is absent,
\* the status text is the label of that status, and lac and ci are present
\* exactly when the quoted pair is, with the texts of the pair
C21_RegistrationDecoded ==
    (Decoded1 /\ Family(diag.command) \in {"+CREG", "+CGREG", "+CEREG"}) =>
        \A hasStat, hasAct \in BOOLEAN : \A pair \in 0..3 :
            RegForm(TheLine.fields, hasStat, pair, hasAct) =>
                LET f == TheLine.fields
                    reg_type == RegType(TheLine.tag)
                    status == IF hasStat THEN f[2].n ELSE f[1].n
                IN /\ Has(reg_type \o "_status")
                   /\ Got(reg_type \o "_status") = status
                   /\ Got(reg_type \o "_status_text") =
                         (CASE status = 2 -> "Not registered, searching"
                            [] status = 5 -> "Registered, roaming"
                            [] status = 7 -> "Unknown (7)")
                   /\ (Has("lac") /\ Has("ci")) <=> (pair > 0)
                   /\ Has("lac") <=> Has("ci")
                   /\ pair > 0 => (Got("lac") = f[pair].s /\ Got("ci") = f[pair + 1].s)

\* a +CSQ: line with two numbers has been decoded
CsqDecoded ==
    /\ Decoded1 /\ diag.command = "AT+CSQ"
    /\ IsNum(TheLine.fields, 1) /\ IsNum(TheLine.fields, 2)

\* the texts the claim gives for rssi 0 and rssi 31 begin with the signs
\* U+2264 and U+2265, written here as escapes
AtMost113 == "\\u2264 -113 dBm"
AtLeast51 == "\\u2265 -51 dBm"

\* the table of the claim, with the texts low and high for rssi 0 and rssi 31
CsqTable(low, high) ==
    CsqDecoded =>
        LET rssi == TheLine.fields[1].n
            ber == TheLine.fields[2].n
        IN /\ Got("rssi_raw") = rssi /\ Got("ber_raw") = ber
           /\ rssi = 0 => Got("rssi_dbm") = low
           /\ rssi = 1 => Got("rssi_dbm") = "-111 dBm"
           /\ rssi \in 2..30 =>
                 /\ Got("rssi_dbm") = ToString(-109 + (rssi - 2) * 2) \o " dBm"
                 /\ rssi < 30 => -109 + (rssi - 2) * 2 < -109 + (rssi + 1 - 2) * 2
           /\ rssi = 2 => Got("rssi_dbm") = "-109 dBm"
           /\ rssi = 30 => Got("rssi_dbm") = "-53 dBm"
           /\ rssi = 31 => Got("rssi_dbm") = high
           /\ rssi > 31 => Got("rssi_dbm") = "Unknown"
           /\ Got("signal_quality") =
                 (CASE rssi \in 0..1 -> "Very Poor"
                    [] rssi \in 2..9 -> "Poor"
                    [] rssi \in 10..14 -> "Fair"
                    [] rssi \in 15..19 -> "Good"
                    [] rssi \in 20..31 -> "Excellent"
                    [] OTHER -> "Unknown")
           /\ ber = 99 => Got("ber_text") = "Unknown or not detectable"
           /\ ber # 99 =>
                 Got("ber_text") =
                    ToString(ber) \o " ("
                      \o <<"<0.2%", "0.2-0.4%", "0.4-0.8%", "0.8-1.6%", "1.6-3.2%",
                           "3.2-6.4%", "6.4-12.8%", ">12.8%">>[IF ber < 7 THEN ber + 1 ELSE 8]
                      \o ")"
           /\ ber = 7 => Got("ber_text") = "7 (>12.8%)"
           /\ ber = 12 => Got("ber_text") = "12 (>12.8%)"

\* C22 as stated: the +CSQ table, with the texts "U+2264 -113 dBm" for rssi 0
\* and "U+2265 -51 dBm" for rssi 31
C22_CsqTable == CsqTable(AtMost113, AtLeast51)

\* C22: decoding "+CSQ: <rssi>,<ber>" follows the fixed table for every rssi
\* and ber: rssi 0 gives "<= -113 dBm"/"Very Poor", 1 gives "-111 dBm"/"Very
\* Poor", 2..30 gives -109 + (rssi-2)*2 dBm, strictly increasing, with Poor
\* below 10, Fair below 15, Good below 20, else Excellent, 31 gives
\* ">= -51 dBm"/"Excellent", anything else Unknown; ber 99 gives "Unknown or
\* not detectable", any other ber the range at index min(ber, 7)
C22_CsqTableAscii == CsqTable("<= -113 dBm", ">= -51 dBm")

C22_Witness ==
    /\ CsqDecoded
    /\ TheLine.fields[1].n = 0 /\ TheLine.fields[2].n = 12
    /\ Got("rssi_dbm") = "<= -113 dBm" /\ Got("ber_text") = "12 (>12.8%)"

\* the answer to AT+CGDCONT? has been decoded
CgdcontDecoded == Decoded1 /\ diag.command = "AT+CGDCONT?"
\* the context records decoded: the list of the field map, none without it
DecodedContexts == IF Has("contexts") THEN Got("contexts") ELSE <<>>

\* a "+CGDCONT:" line that carries a context: <cid>,"<type>","<apn>"
CarriesContext(line) ==
    /\ line.tag = "+CGDCONT:" /\ Len(line.fields) >= 3
    /\ line.fields[1].k = "num"
    /\ line.fields[2].k \in {"hex", "str"} /\ line.fields[3].k \in {"hex", "str"}

\* C23: decoding a CGDCONT response yields exactly one context record per
\* matching "+CGDCONT:" line, in the order of the lines; each record carries
\* the cid, PDP type and APN of its line, and its address is the quoted fourth
\* field when present and the empty string when absent
C23_ContextPerLine ==
    CgdcontDecoded =>
        LET matching == {i \in 1..Len(diag.response) : CarriesContext(diag.response[i])}
            contexts == DecodedContexts
        IN /\ Len(contexts) = Cardinality(matching)
           /\ \E at \in [1..Len(contexts) -> matching] :
                 /\ \A j, k \in 1..Len(contexts) : j < k => at[j] < at[k]
                 /\ \A j \in 1..Len(contexts) :
                       LET f == diag.response[at[j]].fields
                       IN /\ contexts[j].cid = f[1].n
                          /\ contexts[j].pdp_type = f[2].s
                          /\ contexts[j].apn = f[3].s
                          /\ contexts[j].pdp_addr =
                                (IF Len(f) >= 4 /\ f[4].k \in {"hex", "str"}
                                 THEN f[4].s ELSE "")

\* two contexts in line order, the first without an address, the second with
C23_Witness ==
    /\ CgdcontDecoded
    /\ Len(DecodedContexts) = 2
    /\ DecodedContexts[1].cid = 1 /\ DecodedContexts[1].pdp_addr = ""
    /\ DecodedContexts[2].cid = 2 /\ DecodedContexts[2].pdp_addr = "10.0.0.1"

\* the answer is one line of a family of fields that stops early
OneLine ==
    /\ Decoded1 /\ Fielded(Family(diag.command))
    /\ \E lines \in ShortAnswers(diag.command) : diag.response = Answer(lines)

\* the field, counted from 1, that a key of the field map is derived from
TokenOf(family) ==
    CASE family = "+COPS" ->
            ("mode" :> 1) @@ ("mode_text" :> 1) @@ ("format" :> 2)
            @@ ("operator" :> 3) @@ ("access_tech" :> 4) @@ ("access_tech_text" :> 4)
      [] family \in {"+CREG", "+CGREG", "+CEREG"} ->
            ("creg_status" :> 1) @@ ("creg_status_text" :> 1)
            @@ ("cgreg_status" :> 1) @@ ("cgreg_status_text" :> 1)
            @@ ("cereg_status" :> 1) @@ ("cereg_status_text" :> 1)
            @@ ("lac" :> 3) @@ ("ci" :> 4) @@ ("act" :> 5) @@ ("act_text" :> 5)
      [] family = "+CSQ" ->
            ("rssi_raw" :> 1) @@ ("rssi_dbm" :> 1) @@ ("signal_quality" :> 1)
            @@ ("ber_raw" :> 2) @@ ("ber_text" :> 2)
      [] family = "+CGDCONT" -> EmptyDict
      [] family = "+CPIN" ->
            ("sim_status" :> 1) @@ ("sim_ready" :> 1) @@ ("sim_status_text" :> 1)
      [] family = "+QENG" ->
            ("servingcell_type" :> 1) @@ ("state" :> 2) @@ ("mode" :> 3)
            @@ ("mcc" :> 5) @@ ("mnc" :> 6) @@ ("cellid" :> 7) @@ ("pcid" :> 8)
            @@ ("earfcn" :> 9) @@ ("freq_band" :> 10) @@ ("ul_bandwidth" :> 11)
            @@ ("dl_bandwidth" :> 12) @@ ("tac" :> 13) @@ ("rsrp" :> 14)
            @@ ("rsrq" :> 15) @@ ("rssi" :> 16) @@ ("sinr" :> 17)
      [] family = "+QNWINFO" ->
            ("access_tech" :> 1) @@ ("operator" :> 2) @@ ("band" :> 3)
            @@ ("channel" :> 4)
      [] family = "+QSPN" -> ("fnn" :> 1) @@ ("snn" :> 2) @@ ("spn" :> 3)

\* the keys whose token the line decoded does not have
MissingKeys ==
    {key \in DOMAIN TokenOf(Family(diag.command)) :
        TokenOf(Family(diag.command))[key] > Len(TheLine.fields)}

\* the decoding did not raise, the response is no error response and the
\* field map holds the raw text
Tolerated ==
    /\ diag.resp.success /\ diag.resp.error = None
    /\ Has("raw") /\ Got("raw") = diag.response

\* C24 as stated: for a line with fewer fields than the grammar of its family
\* the field map omits every field that depends on a missing token and still
\* holds the raw text; the decoding never raises and the response is never
\* turned into an error response
C24_OmitsDependent ==
    OneLine => (Tolerated /\ \A key \in MissingKeys : ~Has(key))

\* the keys that are kept with an empty value when their token is missing
KeptEmpty == {"servingcell_type", "rssi", "sinr", "sim_status", "sim_status_text"}

\* C24: for a line with fewer fields than the grammar of its family the
\* decoding never raises, the response is never turned into an error response
\* and the field map holds the raw text; a field that depends on a missing
\* token is omitted, except that servingcell_type, rssi and sinr of +QENG and
\* the status texts of +CPIN may be there as the empty string and sim_ready
\* as false
C24_OmitsOrEmpty ==
    OneLine =>
        /\ Tolerated
        /\ \A key \in MissingKeys :
              \/ ~Has(key)
              \/ key \in KeptEmpty /\ Got(key) = ""
              \/ key = "sim_ready" /\ Got(key) = FALSE

\* a +QENG "servingcell" line of 14 fields: only the cell type is decoded
C24_Witness ==
    /\ OneLine /\ Family(diag.command) = "+QENG"
    /\ Len(TheLine.fields) = 14 /\ TheLine.fields[1].s = "servingcell"
    /\ DOMAIN diag.resp.parsed_data = {"raw", "servingcell_type"}
    /\ diag.resp.success

\* detect_modem_vendor has run and the tests of the run are listed
Detected == pc = "rfd_tests"
\* the manufacturer text of an answer that ends with OK
Answered1 ==
    /\ Detected /\ Len(diag.response) = 3 /\ diag.resp.success
    /\ diag.response[2].tag = ""
ManufacturerText == diag.response[2].text

\* the same letter, whatever the case
SameLetter(a, b) ==
    a = b \/ \E j \in 1..Len(Lower) : {a, b} = {Lower[j], Capital[j]}
\* the keyword occurs in the text, whatever the case of the letters
Occurs(keyword, text) ==
    \E i \in 0..(Len(text) - Len(keyword)) :
        \A k \in 1..Len(keyword) : SameLetter(text[i + k], keyword[k])

\* C25: the manufacturer text is classified by the first keyword of the table
\* QUECTEL, SIERRA, UBLOX or U-BLOX, TELIT, SIMCOM that occurs in it whatever
\* the case of its letters, and a text with none of them is the vendor verbatim
C25_VendorByKeyword ==
    Answered1 =>
        LET m == ManufacturerText
        IN diag.modem_vendor.set /\
           diag.modem_vendor.text =
              (CASE Occurs(QUECTEL, m) -> Quectel
                 [] ~Occurs(QUECTEL, m) /\ Occurs(SIERRA, m) -> SierraWireless
                 [] ~Occurs(QUECTEL, m) /\ ~Occurs(SIERRA, m)
                    /\ (Occurs(UBLOX, m) \/ Occurs(U_BLOX, m)) -> u_blox
                 [] ~Occurs(QUECTEL, m) /\ ~Occurs(SIERRA, m)
                    /\ ~Occurs(UBLOX, m) /\ ~Occurs(U_BLOX, m)
                    /\ Occurs(TELIT, m) -> Telit
                 [] ~Occurs(QUECTEL, m) /\ ~Occurs(SIERRA, m)
                    /\ ~Occurs(UBLOX, m) /\ ~Occurs(U_BLOX, m)
                    /\ ~Occurs(TELIT, m) /\ Occurs(SIMCOM, m) -> SimCom
                 [] OTHER -> m)

\* "Quectel Wireless Solutions" has been classified as Quectel
C25_Witness ==
    /\ Answered1
    /\ ManufacturerText = Quectel \o WirelessSolutions
    /\ diag.modem_vendor = Vendor(Quectel)

\* C26: when the manufacturer query fails (no open connection, an I/O fault,
\* a bare ERROR or a +CME ERROR line) the vendor is left unset and no test of
\* a vendor is added to the run
C26_FailureLeavesUnset ==
    (Detected /\ ~diag.resp.success) =>
        (diag.modem_vendor = Unset /\ diag.tests = StandardTests)

====
